---- MODULE Spec2Model ----
(***************************************************************************)
(* The IR code generator of the Cavvy compiler (src/src/codegen).          *)
(*                                                                         *)
(* The generator is a recursive-descent walk of the AST.  The walk is      *)
(* modelled as a state machine: `stack` holds the activation records of    *)
(* the statement generators that are in progress, and each action is the   *)
(* piece of a generator between two recursive calls.  The AST is the       *)
(* input: every node is drawn when the walk reaches it.                    *)
(***************************************************************************)
EXTENDS Integers, Sequences, FiniteSets, TLC

VARIABLES
    code,           \* IRGenerator.code: the emitted lines, oldest first
    temp_counter,   \* IRGenerator.temp_counter
    label_counter,  \* IRGenerator label counter
    loop_stack,     \* IRGenerator loop contexts (cond_label, end_label)
    scope_depth,    \* depth of scope_manager's scope stack
    stack,          \* activation records of the generators in progress
    mode,           \* "call": a statement is to be generated; "ret": one returned
    status,         \* "running", "done" (Ok) or "error" (Err propagated by ?)
    budget,         \* number of AST nodes of the explored function bodies
    nstmt,          \* number of AST nodes (statements, case clauses) drawn so far
    last_stmt,      \* the AST node visited last
    case_log        \* the switch cases generated so far (AST facts and code span)

gen == <<code, temp_counter, label_counter, loop_stack, scope_depth>>
vars == <<code, temp_counter, label_counter, loop_stack, scope_depth, stack, mode,
          status, budget, nstmt, last_stmt, case_log>>

(***************************************************************************)
(* Bounds of the explored inputs.                                          *)
(***************************************************************************)
MaxStmts == 4     \* statements and case clauses in one function body
MaxLoopStmts == 5 \* the same, for bodies made of loops, blocks and jumps
MaxDepth == 4     \* nested generators in progress
MaxCases == 2     \* cases of one switch
MaxLen == 2       \* elements of one array dimension, variadic arguments
MaxDims == 2      \* dimensions of one array creation

(***************************************************************************)
(* Emitted lines.  A line keeps what the generator printed: the opcode,    *)
(* the type, the destination, the operands and the labels it names.        *)
(***************************************************************************)
NoLabel == <<"", 0>>
NoVal == <<"none", 0>>

Line(op, ty, dst, x, y, l1, l2) ==
    [op |-> op, ty |-> ty, dst |-> dst, x |-> x, y |-> y, l1 |-> l1, l2 |-> l2]

LabelLine(l) == Line("label", "", NoVal, NoVal, NoVal, l, NoLabel)
BrLine(l) == Line("br", "", NoVal, NoVal, NoVal, l, NoLabel)
CondBrLine(c, lt, lf) == Line("condbr", "i1", NoVal, c, NoVal, lt, lf)
RetVoidLine == Line("ret", "void", NoVal, NoVal, NoVal, NoLabel, NoLabel)
UnreachableLine == Line("unreachable", "", NoVal, NoVal, NoVal, NoLabel, NoLabel)
Instr(op, ty, dst, x, y) == Line(op, ty, dst, x, y, NoLabel, NoLabel)

Lit(n) == <<"lit", n>>
Tmp(n) == <<"tmp", n>>

\* A conversion "<dst> = <op> <from> <x> to <to>"; y keeps the source type.
Conv(op, from, to, dst, x) == Instr(op, to, dst, x, <<from, 0>>)
ConvFrom(line) == line.y[1]

(***************************************************************************)
(* The text of a line, as far as the generator reads it back.  The if      *)
(* generator decides whether a branch is terminated from the characters    *)
(* the last emitted line starts with; Spell gives the characters of the    *)
(* words the generator prints at the start of a line.                      *)
(***************************************************************************)
Spell(w) ==
    CASE w = "ret" -> <<"r", "e", "t">>
      [] w = "br" -> <<"b", "r">>
      [] w = "switch" -> <<"s", "w", "i", "t", "c", "h">>
      [] w = "unreachable" -> <<"u", "n", "r", "e", "a", "c", "h", "a", "b", "l", "e">>
      [] w = "%" -> <<"%">>
      [] w = "store" -> <<"s", "t", "o", "r", "e">>
      [] w = "call" -> <<"c", "a", "l", "l">>
      [] w = "i64" -> <<"i", "6", "4">>
      [] w = "]" -> <<"]">>
      [] w = "then" -> <<"t", "h", "e", "n">>
      [] w = "else" -> <<"e", "l", "s", "e">>
      [] w = "ifmerge" -> <<"i", "f", "m", "e", "r", "g", "e">>
      [] w = "while.cond" -> <<"w", "h", "i", "l", "e", ".", "c", "o", "n", "d">>
      [] w = "while.body" -> <<"w", "h", "i", "l", "e", ".", "b", "o", "d", "y">>
      [] w = "while.end" -> <<"w", "h", "i", "l", "e", ".", "e", "n", "d">>
      [] w = "for.cond" -> <<"f", "o", "r", ".", "c", "o", "n", "d">>
      [] w = "for.body" -> <<"f", "o", "r", ".", "b", "o", "d", "y">>
      [] w = "for.update" -> <<"f", "o", "r", ".", "u", "p", "d", "a", "t", "e">>
      [] w = "for.end" -> <<"f", "o", "r", ".", "e", "n", "d">>
      [] w = "dowhile.body" -> <<"d", "o", "w", "h", "i", "l", "e", ".", "b", "o", "d", "y">>
      [] w = "dowhile.cond" -> <<"d", "o", "w", "h", "i", "l", "e", ".", "c", "o", "n", "d">>
      [] w = "dowhile.end" -> <<"d", "o", "w", "h", "i", "l", "e", ".", "e", "n", "d">>
      [] w = "switch.end" -> <<"s", "w", "i", "t", "c", "h", ".", "e", "n", "d">>
      [] w = "switch.default" -> <<"s", "w", "i", "t", "c", "h", ".", "d", "e", "f", "a", "u", "l", "t">>
      [] w = "switch.case" -> <<"s", "w", "i", "t", "c", "h", ".", "c", "a", "s", "e">>
      [] w = "div.error" -> <<"d", "i", "v", ".", "e", "r", "r", "o", "r">>
      [] w = "div.cont" -> <<"d", "i", "v", ".", "c", "o", "n", "t">>
      [] w = "md_loop" -> <<"m", "d", "_", "l", "o", "o", "p">>
      [] w = "md_body" -> <<"m", "d", "_", "b", "o", "d", "y">>
      [] w = "md_end" -> <<"m", "d", "_", "e", "n", "d">>

StartsWith(s, p) == Len(p) <= Len(s) /\ SubSeq(s, 1, Len(p)) = p

\* The first word of the line after trim(): a label line starts with its
\* label, an instruction with a result starts with the temporary.
LineText(line) ==
    CASE line.op = "label" -> line.l1[1]
      [] line.op \in {"br", "condbr"} -> "br"
      [] line.op = "ret" -> "ret"
      [] line.op = "switch" -> "switch"
      [] line.op = "switchcase" -> "i64"
      [] line.op = "switchclose" -> "]"
      [] line.op = "unreachable" -> "unreachable"
      [] line.op = "store" -> "store"
      [] line.dst = NoVal -> "call"
      [] OTHER -> "%"

TerminatorWords == {"ret", "br", "switch", "unreachable"}

LooksLikeTerminator(line) ==
    \E p \in TerminatorWords : StartsWith(Spell(LineText(line)), Spell(p))

\* if_stmt.rs: the branch emitted code[before+1 ..]; it counts as terminated
\* when it emitted something and its last line looks like a terminator.
BranchTerminates(c, before) ==
    /\ Len(c) > before
    /\ LooksLikeTerminator(c[Len(c)])

MergeIsUnreachable_ThenOnly(has_else, then_terminates, else_terminates) ==
    IF has_else THEN then_terminates /\ else_terminates ELSE then_terminates

MergeIsUnreachable(has_else, then_terminates, else_terminates) ==
    IF has_else THEN then_terminates /\ else_terminates ELSE FALSE

(***************************************************************************)
(* IRGenerator helpers of codegen/context.rs.                              *)
(***************************************************************************)
new_label(prefix, k) == <<prefix, label_counter + k>>
new_temp(k) == Tmp(temp_counter + k)
current_loop == IF loop_stack = <<>> THEN <<>> ELSE <<loop_stack[Len(loop_stack)]>>
enter_loop(cond_label, end_label) ==
    Append(loop_stack, [cond_label |-> cond_label, end_label |-> end_label])
exit_loop == SubSeq(loop_stack, 1, Len(loop_stack) - 1)

Top == stack[Len(stack)]
Pop == SubSeq(stack, 1, Len(stack) - 1)
Push(f) == Append(stack, f)
ReplaceTop(f) == [stack EXCEPT ![Len(stack)] = f]

\* The literal the explored programs use as condition and as scrutinee.
BoolLit == [ty |-> "i1", val |-> Lit(1)]
IntLit == [ty |-> "i32", val |-> Lit(0)]

\* The walk reaches a new AST statement of kind k that, with the clauses it
\* brings along, has n nodes: nstmt counts the nodes of the function body
\* drawn so far, at most budget.
Draw(k, n) ==
    /\ status = "running"
    /\ nstmt + n <= budget
    /\ nstmt' = nstmt + n
    /\ last_stmt' = k
    /\ budget' = budget

\* generate_statement is entered for a new AST statement of kind k.
Visit(k) == mode = "call" /\ Draw(k, 1)

VisitNested(k) == Visit(k) /\ Len(stack) < MaxDepth

Resume(fn, pc) ==
    /\ status = "running"
    /\ mode = "ret"
    /\ stack # <<>>
    /\ Top.fn = fn
    /\ Top.pc = pc

\* "icmp ne <ty> <val>, 0" into cond_reg: the normalisation of a condition.
CondLines(cond, cond_reg) ==
    <<Instr("icmp ne", cond.ty, cond_reg, cond.val, Lit(0))>>

(***************************************************************************)
(* Statements without nested statements.                                   *)
(***************************************************************************)
\* Stmt::Expr: the expression statement either emits nothing (a literal) or
\* one store (an assignment of a literal to a local).
generate_expression_statement(e) ==
    /\ Visit("expr")
    /\ code' = IF e = "assign"
               THEN Append(code, Instr("store", "i32", NoVal, Lit(1), <<"var", 0>>))
               ELSE code
    /\ mode' = "ret"
    /\ UNCHANGED <<temp_counter, label_counter, loop_stack, scope_depth, stack,
                   status, case_log>>

\* return; (no operand): ret void.
generate_return_statement ==
    /\ Visit("return")
    /\ code' = Append(code, RetVoidLine)
    /\ mode' = "ret"
    /\ UNCHANGED <<temp_counter, label_counter, loop_stack, scope_depth, stack,
                   status, case_log>>

\* A switch generator matches a Stmt::Break of a case or default body itself;
\* only the other statements of the body go through generate_statement.
SwitchMatchesBreak == stack # <<>> /\ Top.fn = "switch"

BreakTarget(loop_ctx) == loop_ctx.end_label

ContinueTarget(loop_ctx) == loop_ctx.cond_label

\* A jump outside of a loop: Err, with nothing emitted (the variant keeps
\* generating).
JumpOutsideLoop_Ignore(c) == [code |-> c, status |-> "running"]
JumpOutsideLoop(c) == [code |-> c, status |-> "error"]

generate_break_statement ==
    /\ Visit("break")
    /\ ~SwitchMatchesBreak
    /\ IF current_loop # <<>>
       THEN /\ code' = Append(code, BrLine(BreakTarget(current_loop[1])))
            /\ status' = status
       ELSE /\ code' = JumpOutsideLoop(code).code
            /\ status' = JumpOutsideLoop(code).status
    /\ mode' = "ret"
    /\ UNCHANGED <<temp_counter, label_counter, loop_stack, scope_depth, stack, case_log>>

generate_continue_statement ==
    /\ Visit("continue")
    /\ IF current_loop # <<>>
       THEN /\ code' = Append(code, BrLine(ContinueTarget(current_loop[1])))
            /\ status' = status
       ELSE /\ code' = JumpOutsideLoop(code).code
            /\ status' = JumpOutsideLoop(code).status
    /\ mode' = "ret"
    /\ UNCHANGED <<temp_counter, label_counter, loop_stack, scope_depth, stack, case_log>>

(***************************************************************************)
(* Blocks.                                                                 *)
(***************************************************************************)
\* generate_block: enter_scope, then the statements in order, then exit_scope.
generate_block ==
    /\ VisitNested("block")
    /\ scope_depth' = scope_depth + 1
    /\ stack' = Push([fn |-> "block", pc |-> "stmts"])
    /\ mode' = "ret"
    /\ UNCHANGED <<code, temp_counter, label_counter, loop_stack, status, case_log>>

block_next_statement ==
    /\ Resume("block", "stmts")
    /\ nstmt < budget
    /\ mode' = "call"
    /\ UNCHANGED <<gen, stack, status, budget, nstmt, last_stmt, case_log>>

\* The end of a block that leaves its scope open.
block_end_KeepScope ==
    /\ Resume("block", "stmts")
    /\ stack' = Pop
    /\ UNCHANGED <<gen, mode, status, budget, nstmt, last_stmt, case_log>>

block_end ==
    /\ Resume("block", "stmts")
    /\ scope_depth' = scope_depth - 1
    /\ stack' = Pop
    /\ UNCHANGED <<code, temp_counter, label_counter, loop_stack, mode, status,
                   budget, nstmt, last_stmt, case_log>>

\* generate_block_without_scope: the function body.
body_next_statement ==
    /\ Resume("body", "stmts")
    /\ nstmt < budget
    /\ mode' = "call"
    /\ UNCHANGED <<gen, stack, status, budget, nstmt, last_stmt, case_log>>

body_end ==
    /\ Resume("body", "stmts")
    /\ stack' = Pop
    /\ status' = "done"
    /\ UNCHANGED <<gen, mode, budget, nstmt, last_stmt, case_log>>

(***************************************************************************)
(* if.                                                                     *)
(***************************************************************************)
generate_if_statement(has_else) ==
    /\ VisitNested("if")
    /\ LET then_label == new_label("then", 0)
           else_label == new_label("else", 1)
           merge_label == new_label("ifmerge", 2)
           cond_reg == new_temp(0)
           emitted == code \o CondLines(BoolLit, cond_reg)
                        \o <<CondBrLine(cond_reg, then_label,
                                        IF has_else THEN else_label ELSE merge_label),
                             LabelLine(then_label)>>
       IN /\ code' = emitted
          /\ label_counter' = label_counter + 3
          /\ temp_counter' = temp_counter + 1
          /\ stack' = Push([fn |-> "if", pc |-> "then", has_else |-> has_else,
                            then_label |-> then_label, else_label |-> else_label,
                            merge_label |-> merge_label,
                            code_before |-> Len(emitted),
                            then_terminates |-> FALSE])
    /\ mode' = "call"
    /\ UNCHANGED <<loop_stack, scope_depth, status, case_log>>

\* The merge block: its label, and unreachable when no path reaches it.
MergeLines(f, then_terminates, else_terminates) ==
    <<LabelLine(f.merge_label)>>
      \o (IF MergeIsUnreachable(f.has_else, then_terminates, else_terminates)
          THEN <<UnreachableLine>> ELSE <<>>)

\* A branch that did not terminate gets the fallthrough branch to the merge block.
CloseBranch(c, before, merge_label) ==
    IF BranchTerminates(c, before) THEN c ELSE Append(c, BrLine(merge_label))

if_then_done ==
    /\ Resume("if", "then")
    /\ LET f == Top
           then_terminates == BranchTerminates(code, f.code_before)
           closed == CloseBranch(code, f.code_before, f.merge_label)
       IN IF f.has_else
          THEN /\ code' = Append(closed, LabelLine(f.else_label))
               /\ stack' = ReplaceTop([f EXCEPT !.pc = "else",
                                                !.then_terminates = then_terminates,
                                                !.code_before = Len(closed) + 1])
               /\ mode' = "call"
          ELSE /\ code' = closed \o MergeLines(f, then_terminates, FALSE)
               /\ stack' = Pop
               /\ mode' = "ret"
    /\ UNCHANGED <<temp_counter, label_counter, loop_stack, scope_depth, status,
                   budget, nstmt, last_stmt, case_log>>

if_else_done ==
    /\ Resume("if", "else")
    /\ LET f == Top
           else_terminates == BranchTerminates(code, f.code_before)
           closed == CloseBranch(code, f.code_before, f.merge_label)
       IN /\ code' = closed \o MergeLines(f, f.then_terminates, else_terminates)
          /\ stack' = Pop
    /\ UNCHANGED <<temp_counter, label_counter, loop_stack, scope_depth, mode, status,
                   budget, nstmt, last_stmt, case_log>>

(***************************************************************************)
(* Loops.                                                                  *)
(***************************************************************************)
generate_while_statement ==
    /\ VisitNested("while")
    /\ LET cond_label == new_label("while.cond", 0)
           body_label == new_label("while.body", 1)
           end_label == new_label("while.end", 2)
           cond_reg == new_temp(0)
       IN /\ loop_stack' = enter_loop(cond_label, end_label)
          /\ code' = code \o <<BrLine(cond_label), LabelLine(cond_label)>>
                          \o CondLines(BoolLit, cond_reg)
                          \o <<CondBrLine(cond_reg, body_label, end_label),
                               LabelLine(body_label)>>
          /\ stack' = Push([fn |-> "while", pc |-> "body", cond_label |-> cond_label,
                            body_label |-> body_label, end_label |-> end_label])
    /\ label_counter' = label_counter + 3
    /\ temp_counter' = temp_counter + 1
    /\ mode' = "call"
    /\ UNCHANGED <<scope_depth, status, case_log>>

\* After the body: the back edge, which is emitted whatever the body ended with.
WhileBackEdge(c, cond_label) == <<BrLine(cond_label)>>

while_body_done ==
    /\ Resume("while", "body")
    /\ code' = code \o WhileBackEdge(code, Top.cond_label) \o <<LabelLine(Top.end_label)>>
    /\ loop_stack' = exit_loop
    /\ stack' = Pop
    /\ UNCHANGED <<temp_counter, label_counter, scope_depth, mode, status, budget, nstmt,
                   last_stmt, case_log>>

\* The loop context of a for loop: continue goes to the update block.
ForLoopContext_Cond(cond_label, update_label, end_label) ==
    [cond_label |-> cond_label, end_label |-> end_label]

ForLoopContext(cond_label, update_label, end_label) ==
    [cond_label |-> update_label, end_label |-> end_label]

\* for (; condition; update) body, with condition and update optional.
generate_for_statement(has_condition, has_update) ==
    /\ VisitNested("for")
    /\ LET cond_label == new_label("for.cond", 0)
           body_label == new_label("for.body", 1)
           update_label == new_label("for.update", 2)
           end_label == new_label("for.end", 3)
           cond_reg == new_temp(0)
           ctx == ForLoopContext(cond_label, update_label, end_label)
       IN /\ loop_stack' = enter_loop(ctx.cond_label, ctx.end_label)
          /\ code' = code \o <<BrLine(cond_label), LabelLine(cond_label)>>
                          \o (IF has_condition
                              THEN CondLines(BoolLit, cond_reg)
                                     \o <<CondBrLine(cond_reg, body_label, end_label)>>
                              ELSE <<BrLine(body_label)>>)
                          \o <<LabelLine(body_label)>>
          /\ stack' = Push([fn |-> "for", pc |-> "body", cond_label |-> cond_label,
                            body_label |-> body_label, update_label |-> update_label,
                            end_label |-> end_label, has_update |-> has_update])
    /\ label_counter' = label_counter + 4
    /\ temp_counter' = temp_counter + (IF has_condition THEN 1 ELSE 0)
    /\ mode' = "call"
    /\ UNCHANGED <<scope_depth, status, case_log>>

for_body_done ==
    /\ Resume("for", "body")
    /\ LET f == Top
       IN code' = code \o <<BrLine(f.update_label), LabelLine(f.update_label)>>
                       \o (IF f.has_update
                           THEN <<Instr("store", "i32", NoVal, Lit(1), <<"var", 0>>)>>
                           ELSE <<>>)
                       \o <<BrLine(f.cond_label), LabelLine(f.end_label)>>
    /\ loop_stack' = exit_loop
    /\ stack' = Pop
    /\ UNCHANGED <<temp_counter, label_counter, scope_depth, mode, status, budget, nstmt,
                   last_stmt, case_log>>

generate_do_while_statement ==
    /\ VisitNested("dowhile")
    /\ LET body_label == new_label("dowhile.body", 0)
           cond_label == new_label("dowhile.cond", 1)
           end_label == new_label("dowhile.end", 2)
       IN /\ loop_stack' = enter_loop(cond_label, end_label)
          /\ code' = code \o <<BrLine(body_label), LabelLine(body_label)>>
          /\ stack' = Push([fn |-> "dowhile", pc |-> "body", cond_label |-> cond_label,
                            body_label |-> body_label, end_label |-> end_label])
    /\ label_counter' = label_counter + 3
    /\ mode' = "call"
    /\ UNCHANGED <<temp_counter, scope_depth, status, case_log>>

do_while_body_done ==
    /\ Resume("dowhile", "body")
    /\ LET f == Top
           cond_reg == new_temp(0)
       IN code' = code \o <<BrLine(f.cond_label), LabelLine(f.cond_label)>>
                       \o CondLines(BoolLit, cond_reg)
                       \o <<CondBrLine(cond_reg, f.body_label, f.end_label),
                            LabelLine(f.end_label)>>
    /\ temp_counter' = temp_counter + 1
    /\ loop_stack' = exit_loop
    /\ stack' = Pop
    /\ UNCHANGED <<label_counter, scope_depth, mode, status, budget, nstmt, last_stmt,
                   case_log>>

(***************************************************************************)
(* switch.                                                                 *)
(***************************************************************************)
\* The case labels, one new_label per case in declaration order; k labels
\* were taken before them.
CaseLabels(ncases, k) == [i \in 1..ncases |-> new_label("switch.case", k + i - 1)]

\* Opens the block of case i, or the default block, or the end block.
\* Returns the lines to emit and the activation record to continue with
\* (<<>> when the switch is finished).
EnterCase(f, i) ==
    IF i <= Len(f.case_labels)
    THEN [lines |-> <<LabelLine(f.case_labels[i])>>,
          frame |-> <<[f EXCEPT !.pc = "case", !.i = i, !.j = 0]>>]
    ELSE IF f.has_default
    THEN [lines |-> <<LabelLine(f.default_label)>>,
          frame |-> <<[f EXCEPT !.pc = "default", !.i = i, !.j = 0]>>]
    ELSE [lines |-> <<LabelLine(f.end_label)>>, frame |-> <<>>]

generate_switch_statement(ncases, has_default) ==
    /\ mode = "call"
    /\ Len(stack) < MaxDepth
    /\ Draw("switch", 1 + ncases)
    /\ LET end_label == new_label("switch.end", 0)
           default_label == IF has_default THEN new_label("switch.default", 1)
                            ELSE end_label
           k == IF has_default THEN 2 ELSE 1
           case_labels == CaseLabels(ncases, k)
           \* the scrutinee is an i32 literal: it is widened to i64
           temp == new_temp(0)
           f == [fn |-> "switch", pc |-> "case", end_label |-> end_label,
                 default_label |-> default_label, has_default |-> has_default,
                 case_labels |-> case_labels, i |-> 1, j |-> 0,
                 fallthrough |-> FALSE]
           first == EnterCase(f, 1)
       IN /\ code' = code \o <<Conv("sext", IntLit.ty, "i64", temp, IntLit.val),
                               Line("switch", "i64", NoVal, temp, NoVal,
                                    default_label, NoLabel)>>
                          \o [i \in 1..ncases |->
                                Line("switchcase", "i64", NoVal, Lit(i), NoVal,
                                     case_labels[i], NoLabel)]
                          \o <<Line("switchclose", "", NoVal, NoVal, NoVal,
                                    NoLabel, NoLabel)>>
                          \o first.lines
          /\ stack' = stack \o first.frame
          /\ label_counter' = label_counter + k + ncases
          /\ temp_counter' = temp_counter + 1
    /\ mode' = "ret"
    /\ UNCHANGED <<loop_stack, scope_depth, status, case_log>>

\* The label a case that falls through branches to: the next case, and for
\* the last case the default block or, without a default, the end block.
FallthroughTarget_End(f, i) == f.end_label

FallthroughTarget(f, i) ==
    IF i < Len(f.case_labels) THEN f.case_labels[i + 1]
    ELSE IF f.has_default THEN f.default_label
    ELSE f.end_label

\* The end of one iteration of the loop over the cases: the fallthrough
\* branch, then the next block.  `ast` is what the body of the case was.
FinishCase(c, f, fallthrough, ast) ==
    LET closed == IF fallthrough THEN Append(c, BrLine(FallthroughTarget(f, f.i))) ELSE c
        next == EnterCase([f EXCEPT !.fallthrough = FALSE], f.i + 1)
    IN /\ code' = closed \o next.lines
       /\ stack' = Pop \o next.frame
       /\ case_log' = Append(case_log,
              [label |-> f.case_labels[f.i], index |-> f.i, ncases |-> Len(f.case_labels),
               has_default |-> f.has_default, default_label |-> f.default_label,
               end_label |-> f.end_label,
               next_label |-> IF f.i < Len(f.case_labels) THEN f.case_labels[f.i + 1]
                              ELSE NoLabel,
               empty |-> ast.empty, has_break |-> ast.has_break,
               ends_in_break |-> ast.ends_in_break, last |-> Len(closed)])

\* The body of the case has no further statement.  An empty body, and a
\* body whose last statement was not a break, fall through.
switch_case_end ==
    /\ Resume("switch", "case")
    /\ FinishCase(code, Top, TRUE,
                  [empty |-> Top.j = 0, has_break |-> FALSE, ends_in_break |-> FALSE])
    /\ UNCHANGED <<temp_counter, label_counter, loop_stack, scope_depth, mode, status,
                   budget, nstmt, last_stmt>>

\* The next statement of the body is not a break: generate_statement.
switch_case_statement ==
    /\ Resume("switch", "case")
    /\ nstmt < budget
    /\ stack' = ReplaceTop([Top EXCEPT !.j = @ + 1])
    /\ mode' = "call"
    /\ UNCHANGED <<gen, status, budget, nstmt, last_stmt, case_log>>

\* The next statement of the body is Stmt::Break: branch to the end of the
\* switch and leave the loop over the body; `more` says whether the body has
\* statements after the break.
switch_case_break(more) ==
    /\ Resume("switch", "case")
    /\ Draw("break", IF more THEN 2 ELSE 1)
    /\ FinishCase(Append(code, BrLine(Top.end_label)), Top, FALSE,
                  [empty |-> FALSE, has_break |-> TRUE, ends_in_break |-> ~more])
    /\ UNCHANGED <<temp_counter, label_counter, loop_stack, scope_depth, mode, status>>

\* The default block always ends with a branch to the end block.
FinishDefault(c, f) ==
    /\ code' = c \o <<BrLine(f.end_label), LabelLine(f.end_label)>>
    /\ stack' = Pop

switch_default_end ==
    /\ Resume("switch", "default")
    /\ FinishDefault(code, Top)
    /\ UNCHANGED <<temp_counter, label_counter, loop_stack, scope_depth, mode, status,
                   budget, nstmt, last_stmt, case_log>>

switch_default_statement ==
    /\ Resume("switch", "default")
    /\ nstmt < budget
    /\ stack' = ReplaceTop([Top EXCEPT !.j = @ + 1])
    /\ mode' = "call"
    /\ UNCHANGED <<gen, status, budget, nstmt, last_stmt, case_log>>

switch_default_break ==
    /\ Resume("switch", "default")
    /\ Draw("break", 1)
    /\ FinishDefault(Append(code, BrLine(Top.end_label)), Top)
    /\ UNCHANGED <<temp_counter, label_counter, loop_stack, scope_depth, mode, status,
                   case_log>>

(***************************************************************************)
(* The generation of one function body.                                    *)
(***************************************************************************)
Init ==
    /\ code = <<>>
    /\ temp_counter = 0
    /\ label_counter = 0
    /\ loop_stack = <<>>
    /\ scope_depth = 1
    /\ stack = <<[fn |-> "body", pc |-> "stmts"]>>
    /\ mode = "ret"
    /\ status = "running"
    /\ budget = MaxStmts
    /\ nstmt = 0
    /\ last_stmt = "none"
    /\ case_log = <<>>

Next ==
    \/ \E e \in {"literal", "assign"} : generate_expression_statement(e)
    \/ generate_return_statement
    \/ generate_break_statement
    \/ generate_continue_statement
    \/ generate_block
    \/ block_next_statement
    \/ block_end
    \/ body_next_statement
    \/ body_end
    \/ \E has_else \in BOOLEAN : generate_if_statement(has_else)
    \/ if_then_done
    \/ if_else_done
    \/ generate_while_statement
    \/ while_body_done
    \/ \E has_condition \in BOOLEAN, has_update \in BOOLEAN :
          generate_for_statement(has_condition, has_update)
    \/ for_body_done
    \/ generate_do_while_statement
    \/ do_while_body_done
    \/ \E ncases \in 1..MaxCases, has_default \in BOOLEAN :
          generate_switch_statement(ncases, has_default)
    \/ switch_case_end
    \/ switch_case_statement
    \/ \E more \in BOOLEAN : switch_case_break(more)
    \/ switch_default_end
    \/ switch_default_statement
    \/ switch_default_break

Spec == Init /\ [][Next]_vars

(***************************************************************************)
(* Generation restricted to loops, blocks, jumps and assignments, for      *)
(* function bodies of up to MaxLoopStmts statements.                       *)
(***************************************************************************)
InitLoops ==
    /\ code = <<>>
    /\ temp_counter = 0
    /\ label_counter = 0
    /\ loop_stack = <<>>
    /\ scope_depth = 1
    /\ stack = <<[fn |-> "body", pc |-> "stmts"]>>
    /\ mode = "ret"
    /\ status = "running"
    /\ budget = MaxLoopStmts
    /\ nstmt = 0
    /\ last_stmt = "none"
    /\ case_log = <<>>

NextLoops ==
    \/ generate_expression_statement("assign")
    \/ generate_break_statement
    \/ generate_continue_statement
    \/ generate_block
    \/ block_next_statement
    \/ block_end
    \/ body_next_statement
    \/ body_end
    \/ generate_while_statement
    \/ while_body_done
    \/ \E has_update \in BOOLEAN : generate_for_statement(TRUE, has_update)
    \/ for_body_done
    \/ generate_do_while_statement
    \/ do_while_body_done
    \/ \E has_else \in BOOLEAN : generate_if_statement(has_else)
    \/ if_then_done
    \/ if_else_done

SpecLoops == InitLoops /\ [][NextLoops]_vars

(***************************************************************************)
(* Expressions.  generate_expression returns the string "<type> <value>";  *)
(* the model keeps the pair [ty, val].  The generators of this part are    *)
(* straight-line: each is an operator from its arguments and the number k  *)
(* of temporaries (j of labels) its caller has taken since the step began  *)
(* to the lines it emits and the temporaries and labels it takes.          *)
(***************************************************************************)
IntTypes == {"i1", "i8", "i32", "i64"}
FloatTypes == {"float", "double"}
\* format!("{}*", t), and the type a pointer type points to
Ptr(t) == t \o "*"
Deref(t) == SubSeq(t, 1, Len(t) - 1)

\* t.ends_with('*') and t.starts_with("i")
EndsWithStar(t) == Len(t) > 0 /\ SubSeq(t, Len(t), Len(t)) = "*"
StartsWithI(t) == Len(t) > 0 /\ SubSeq(t, 1, 1) = "i"

\* t.trim_start_matches('i').parse().unwrap_or(64)
Bits(t) ==
    CASE t = "i1" -> 1 [] t = "i8" -> 8 [] t = "i32" -> 32 [] t = "i64" -> 64
      [] OTHER -> 64

Operand(ty, val) == [ty |-> ty, val |-> val]
NoOperand == Operand("", NoVal)

\* utils.rs promote_integer_operands.
promote_integer_operands(left_type, left_val, right_type, right_val, k) ==
    IF EndsWithStar(left_type) \/ EndsWithStar(right_type)
    THEN [ty |-> left_type, left |-> left_val, right |-> right_val,
          lines |-> <<>>, temps |-> 0]
    ELSE IF left_type # "i8" /\ right_type # "i8" /\ left_type = right_type
    THEN [ty |-> left_type, left |-> left_val, right |-> right_val,
          lines |-> <<>>, temps |-> 0]
    ELSE
    LET target_type == IF left_type = "i8" \/ right_type = "i8" THEN "i32"
                       ELSE IF Bits(left_type) >= Bits(right_type) THEN left_type
                       ELSE right_type
        left_conv == left_type # target_type
        right_conv == right_type # target_type
        kr == IF left_conv THEN k + 1 ELSE k
    IN [ty |-> target_type,
        left |-> IF left_conv THEN new_temp(k) ELSE left_val,
        right |-> IF right_conv THEN new_temp(kr) ELSE right_val,
        lines |-> (IF left_conv
                   THEN <<Conv("sext", left_type, target_type, new_temp(k), left_val)>>
                   ELSE <<>>)
                  \o (IF right_conv
                      THEN <<Conv("sext", right_type, target_type, new_temp(kr), right_val)>>
                      ELSE <<>>),
        temps |-> (IF left_conv THEN 1 ELSE 0) + (IF right_conv THEN 1 ELSE 0)]

promote_float_operands(left_type, left_val, right_type, right_val, k) ==
    IF left_type = right_type
    THEN [ty |-> left_type, left |-> left_val, right |-> right_val,
          lines |-> <<>>, temps |-> 0]
    ELSE IF left_type = "double" \/ right_type = "double"
    THEN LET left_conv == left_type = "float"
             right_conv == right_type = "float"
             kr == IF left_conv THEN k + 1 ELSE k
         IN [ty |-> "double",
             left |-> IF left_conv THEN new_temp(k) ELSE left_val,
             right |-> IF right_conv THEN new_temp(kr) ELSE right_val,
             lines |-> (IF left_conv
                        THEN <<Conv("fpext", "float", "double", new_temp(k), left_val)>>
                        ELSE <<>>)
                       \o (IF right_conv
                           THEN <<Conv("fpext", "float", "double", new_temp(kr), right_val)>>
                           ELSE <<>>),
             temps |-> (IF left_conv THEN 1 ELSE 0) + (IF right_conv THEN 1 ELSE 0)]
    ELSE [ty |-> left_type, left |-> left_val, right |-> right_val,
          lines |-> <<>>, temps |-> 0]

\* Some((type, left, right)) for an integer with a float, else None.
promote_mixed_operands(left_type, left_val, right_type, right_val, k) ==
    LET left_is_int == StartsWithI(left_type) /\ ~EndsWithStar(left_type)
        right_is_int == StartsWithI(right_type) /\ ~EndsWithStar(right_type)
        left_is_float == left_type \in FloatTypes
        right_is_float == right_type \in FloatTypes
    IN IF left_is_int /\ right_is_float
       THEN LET promoted_type == IF right_type = "double" THEN "double" ELSE "float"
            IN [some |-> TRUE, ty |-> promoted_type, left |-> new_temp(k),
                right |-> right_val,
                lines |-> <<Conv("sitofp", left_type, promoted_type, new_temp(k), left_val)>>,
                temps |-> 1]
       ELSE IF left_is_float /\ right_is_int
       THEN LET promoted_type == IF left_type = "double" THEN "double" ELSE "float"
            IN [some |-> TRUE, ty |-> promoted_type, left |-> left_val,
                right |-> new_temp(k),
                lines |-> <<Conv("sitofp", right_type, promoted_type, new_temp(k), right_val)>>,
                temps |-> 1]
       ELSE [some |-> FALSE, ty |-> "", left |-> left_val, right |-> right_val,
             lines |-> <<>>, temps |-> 0]

\* The global get_or_create_string_constant returns for the error message.
DivisionMessage == <<"str", 0>>

PrintfLine(msg) == Instr("call printf", "i32", NoVal, msg, NoVal)
ExitLine(exit_status) == Instr("call exit", "void", NoVal, Lit(exit_status), NoVal)

\* The zero-check without the call of exit.
generate_division_by_zero_check_NoExit(val_type, val, k, j) ==
    LET error_label == new_label("div.error", j)
        continue_label == new_label("div.cont", j + 1)
        is_zero == new_temp(k)
    IN <<Instr("icmp eq", val_type, is_zero, val, Lit(0)),
         CondBrLine(is_zero, error_label, continue_label),
         LabelLine(error_label),
         PrintfLine(DivisionMessage),
         UnreachableLine,
         LabelLine(continue_label)>>

\* utils.rs generate_division_by_zero_check: one temporary, two labels.
generate_division_by_zero_check(val_type, val, k, j) ==
    LET error_label == new_label("div.error", j)
        continue_label == new_label("div.cont", j + 1)
        is_zero == new_temp(k)
    IN <<Instr("icmp eq", val_type, is_zero, val, Lit(0)),
         CondBrLine(is_zero, error_label, continue_label),
         LabelLine(error_label),
         PrintfLine(DivisionMessage),
         ExitLine(1),
         UnreachableLine,
         LabelLine(continue_label)>>

\* What a binary operator generator returns: Ok("<ty> <temp>") with the lines
\* it emitted, or Err.
OkResult(ty, val, lines, temps, labels) ==
    [ok |-> TRUE, ty |-> ty, val |-> val, lines |-> lines, temps |-> temps,
     labels |-> labels]
ErrResult == [ok |-> FALSE, ty |-> "", val |-> NoVal, lines |-> <<>>, temps |-> 0,
              labels |-> 0]

BothInteger(left_type, right_type) == StartsWithI(left_type) /\ StartsWithI(right_type)
BothFloat(left_type, right_type) ==
    left_type \in FloatTypes /\ right_type \in FloatTypes

\* generate_sub and generate_mul, and generate_add for operands that are no
\* strings: promote, then one instruction into temp.  temp was taken by the
\* caller, so the promotions start at temporary 1.
generate_arith(iop, fop, left_type, left_val, right_type, right_val, temp) ==
    IF BothInteger(left_type, right_type)
    THEN LET p == promote_integer_operands(left_type, left_val, right_type, right_val, 1)
         IN OkResult(p.ty, temp,
                     p.lines \o <<Instr(iop, p.ty, temp, p.left, p.right)>>, p.temps, 0)
    ELSE IF BothFloat(left_type, right_type)
    THEN LET p == promote_float_operands(left_type, left_val, right_type, right_val, 1)
         IN OkResult(p.ty, temp,
                     p.lines \o <<Instr(fop, p.ty, temp, p.left, p.right)>>, p.temps, 0)
    ELSE LET p == promote_mixed_operands(left_type, left_val, right_type, right_val, 1)
         IN IF p.some
            THEN OkResult(p.ty, temp,
                          p.lines \o <<Instr(fop, p.ty, temp, p.left, p.right)>>,
                          p.temps, 0)
            ELSE ErrResult

generate_add(left_type, left_val, right_type, right_val, temp) ==
    generate_arith("add", "fadd", left_type, left_val, right_type, right_val, temp)

generate_sub(left_type, left_val, right_type, right_val, temp) ==
    generate_arith("sub", "fsub", left_type, left_val, right_type, right_val, temp)

generate_mul(left_type, left_val, right_type, right_val, temp) ==
    generate_arith("mul", "fmul", left_type, left_val, right_type, right_val, temp)

\* binary.rs generate_div: the zero-check is emitted for integers only.
generate_div(left_type, left_val, right_type, right_val, temp) ==
    IF BothInteger(left_type, right_type)
    THEN LET p == promote_integer_operands(left_type, left_val, right_type, right_val, 1)
             check == generate_division_by_zero_check(p.ty, p.right, 1 + p.temps, 0)
         IN OkResult(p.ty, temp,
                     p.lines \o check \o <<Instr("sdiv", p.ty, temp, p.left, p.right)>>,
                     p.temps + 1, 2)
    ELSE IF BothFloat(left_type, right_type)
    THEN LET p == promote_float_operands(left_type, left_val, right_type, right_val, 1)
         IN OkResult(p.ty, temp,
                     p.lines \o <<Instr("fdiv", p.ty, temp, p.left, p.right)>>, p.temps, 0)
    ELSE LET p == promote_mixed_operands(left_type, left_val, right_type, right_val, 1)
         IN IF p.some
            THEN OkResult(p.ty, temp,
                          p.lines \o <<Instr("fdiv", p.ty, temp, p.left, p.right)>>,
                          p.temps, 0)
            ELSE ErrResult

\* binary.rs generate_mod: integers only.
generate_mod(left_type, left_val, right_type, right_val, temp) ==
    IF BothInteger(left_type, right_type)
    THEN LET p == promote_integer_operands(left_type, left_val, right_type, right_val, 1)
             check == generate_division_by_zero_check(p.ty, p.right, 1 + p.temps, 0)
         IN OkResult(p.ty, temp,
                     p.lines \o check \o <<Instr("srem", p.ty, temp, p.left, p.right)>>,
                     p.temps + 1, 2)
    ELSE ErrResult

BinaryOps == {"Add", "Sub", "Mul", "Div", "Mod"}

\* The operand a generator of a sub-expression returns to the binary
\* expression that waits for it.
OperandReturned(f, v) ==
    IF f.pc = "left" THEN [f EXCEPT !.pc = "right", !.left = v]
    ELSE [f EXCEPT !.pc = "op", !.right = v]

AwaitsOperand ==
    /\ status = "running"
    /\ stack # <<>>
    /\ Top.fn = "binary"
    /\ Top.pc \in {"left", "right"}

\* literal.rs: a literal emits nothing; a float literal is typed double.
LiteralKinds == {"Int32", "Int64", "Float32", "Float64", "Bool", "Char"}

LiteralType(lit) ==
    CASE lit = "Int32" -> "i32" [] lit = "Int64" -> "i64"
      [] lit = "Float32" -> "double" [] lit = "Float64" -> "double"
      [] lit = "Bool" -> "i1" [] lit = "Char" -> "i8"

generate_literal(lit) ==
    /\ AwaitsOperand
    /\ stack' = ReplaceTop(OperandReturned(Top, Operand(LiteralType(lit), Lit(1))))
    /\ last_stmt' = "literal"
    /\ UNCHANGED <<gen, mode, status, budget, nstmt, case_log>>

\* identifier.rs: a local variable of type var_type is loaded into a new
\* temporary.
generate_identifier(var_type) ==
    /\ AwaitsOperand
    /\ LET temp == new_temp(0)
       IN /\ code' = Append(code, Instr("load", var_type, temp, <<"var", 0>>, NoVal))
          /\ stack' = ReplaceTop(OperandReturned(Top, Operand(var_type, temp)))
    /\ temp_counter' = temp_counter + 1
    /\ last_stmt' = "identifier"
    /\ UNCHANGED <<label_counter, loop_stack, scope_depth, mode, status, budget, nstmt,
                   case_log>>

\* binary.rs generate_binary_expression, after both operands: takes temp,
\* then dispatches on the operator.
generate_binary_expression(op) ==
    /\ status = "running"
    /\ stack # <<>>
    /\ Top.fn = "binary"
    /\ Top.pc = "op"
    /\ LET f == Top
           temp == new_temp(0)
           r == CASE op = "Add" -> generate_add(f.left.ty, f.left.val, f.right.ty, f.right.val, temp)
                  [] op = "Sub" -> generate_sub(f.left.ty, f.left.val, f.right.ty, f.right.val, temp)
                  [] op = "Mul" -> generate_mul(f.left.ty, f.left.val, f.right.ty, f.right.val, temp)
                  [] op = "Div" -> generate_div(f.left.ty, f.left.val, f.right.ty, f.right.val, temp)
                  [] op = "Mod" -> generate_mod(f.left.ty, f.left.val, f.right.ty, f.right.val, temp)
       IN /\ code' = code \o r.lines
          /\ temp_counter' = temp_counter + 1 + r.temps
          /\ label_counter' = label_counter + r.labels
          /\ stack' = ReplaceTop([f EXCEPT !.pc = "done", !.op = op, !.start = Len(code),
                                           !.result = Operand(r.ty, r.val)])
          /\ status' = IF r.ok THEN "done" ELSE "error"
    /\ last_stmt' = "binary"
    /\ UNCHANGED <<loop_stack, scope_depth, mode, budget, nstmt, case_log>>

\* The generation of one binary expression over two operands.
InitExpr ==
    /\ code = <<>>
    /\ temp_counter = 0
    /\ label_counter = 0
    /\ loop_stack = <<>>
    /\ scope_depth = 1
    /\ stack = <<[fn |-> "binary", pc |-> "left", op |-> "", left |-> NoOperand,
                  right |-> NoOperand, result |-> NoOperand, start |-> 0]>>
    /\ mode = "ret"
    /\ status = "running"
    /\ budget = 0
    /\ nstmt = 0
    /\ last_stmt = "none"
    /\ case_log = <<>>

NextExpr ==
    \/ \E lit \in LiteralKinds : generate_literal(lit)
    \/ \E var_type \in IntTypes \cup FloatTypes : generate_identifier(var_type)
    \/ \E op \in BinaryOps : generate_binary_expression(op)

SpecExpr == InitExpr /\ [][NextExpr]_vars

(***************************************************************************)
(* Arrays.  An array value is the operand an array expression returns; the *)
(* frame of generate_member_access keeps it with the element counts the    *)
(* source program gave (dims: one count per dimension).                    *)
(***************************************************************************)
ElementTypes == {"Int32", "Int64", "Char"}

type_to_llvm(element_type) ==
    CASE element_type = "Int32" -> "i32"
      [] element_type = "Int64" -> "i64"
      [] element_type = "Char" -> "i8"

\* array.rs generate_1d_array_creation: the element size match.
ElementSize(element_type) ==
    CASE element_type = "Int32" -> 4
      [] element_type = "Int64" -> 8
      [] element_type = "Char" -> 1
      [] OTHER -> 8

\* array.rs generate_array_init: the element size by LLVM type.
LlvmElementSize(elem_llvm_type) ==
    CASE elem_llvm_type \in {"i1", "i8"} -> 1
      [] elem_llvm_type \in {"i32", "float"} -> 4
      [] OTHER -> 8

\* The bytes in front of element 0 that array creation reserves, and the
\* offset at which .length reads the count.
HeaderBytes == 8
LengthOffset == -8

CallocLine(dst, bytes) == Instr("call calloc", "i8*", dst, bytes, NoVal)
StoreLine(ty, val, ptr) == Instr("store", ty, NoVal, val, ptr)
LoadLine(ty, dst, ptr) == Instr("load", ty, dst, ptr, NoVal)
GepLine(elem_ty, dst, ptr, index) == Instr("getelementptr", elem_ty, dst, ptr, index)

ArrayResult(ty, val, lines, temps, labels) ==
    [ty |-> ty, val |-> val, lines |-> lines, temps |-> temps, labels |-> labels]

\* array.rs generate_1d_array_creation; size is the operand the size
\* expression returned (an integer literal).
generate_1d_array_creation(element_type, size, k) ==
    LET ext == size.ty # "i64"
        tr == size.ty # "i32"
        k1 == k + (IF ext THEN 1 ELSE 0) + (IF tr THEN 1 ELSE 0)
        size_i64 == IF ext THEN new_temp(k) ELSE size.val
        size_i32 == IF tr THEN new_temp(k1 - 1) ELSE size.val
        elem_type == type_to_llvm(element_type)
        data_bytes_temp == new_temp(k1)
        total_bytes_temp == new_temp(k1 + 1)
        calloc_temp == new_temp(k1 + 2)
        len_ptr == new_temp(k1 + 3)
        data_ptr == new_temp(k1 + 4)
        cast_temp == new_temp(k1 + 5)
    IN ArrayResult(Ptr(elem_type), cast_temp,
          (IF ext THEN <<Conv("sext", size.ty, "i64", size_i64, size.val)>> ELSE <<>>)
          \o (IF tr THEN <<Conv("trunc", size.ty, "i32", size_i32, size.val)>> ELSE <<>>)
          \o <<Instr("mul", "i64", data_bytes_temp, size_i64, Lit(ElementSize(element_type))),
               Instr("add", "i64", total_bytes_temp, data_bytes_temp, Lit(HeaderBytes)),
               CallocLine(calloc_temp, total_bytes_temp),
               Conv("bitcast", "i8*", "i32*", len_ptr, calloc_temp),
               StoreLine("i32", size_i32, len_ptr),
               GepLine("i8", data_ptr, calloc_temp, Lit(HeaderBytes)),
               Conv("bitcast", "i8*", Ptr(elem_type), cast_temp, data_ptr)>>,
          k1 - k + 6, 0)

\* array.rs get_md_array_type: the element type followed by one * per
\* dimension.
RECURSIVE get_md_array_type(_, _)
get_md_array_type(element_type, dimensions) ==
    IF dimensions = 0 THEN type_to_llvm(element_type)
    ELSE Ptr(get_md_array_type(element_type, dimensions - 1))

\* The loop body storing every sub-array at index 0 of the pointer array.
StoreSubArray_FirstSlot(sub_array_llvm_type, sub_array_val, ptr_array, current_idx, elem_ptr) ==
    <<GepLine(sub_array_llvm_type, elem_ptr, ptr_array, Lit(0)),
      StoreLine(sub_array_llvm_type, sub_array_val, elem_ptr)>>

\* array.rs generate_md_array_creation, in the loop body: the sub-array
\* pointer is stored at the current index of the pointer array.
StoreSubArray(sub_array_llvm_type, sub_array_val, ptr_array, current_idx, elem_ptr) ==
    <<GepLine(sub_array_llvm_type, elem_ptr, ptr_array, current_idx),
      StoreLine(sub_array_llvm_type, sub_array_val, elem_ptr)>>

\* array.rs generate_md_array_creation; sizes are the operands of the size
\* expressions, two or more.  The pointer array of the first dimension is
\* filled by an emitted loop whose body creates one sub-array.
RECURSIVE generate_md_array_creation(_, _, _, _)
generate_md_array_creation(element_type, sizes, k, j) ==
    LET sub_sizes == Tail(sizes)
        first_size == sizes[1]
        ext == first_size.ty # "i64"
        k1 == k + (IF ext THEN 1 ELSE 0)
        first_size_i64 == IF ext THEN new_temp(k) ELSE first_size.val
        sub_array_llvm_type ==
            IF Len(sub_sizes) = 1 THEN Ptr(type_to_llvm(element_type))
            ELSE Ptr(get_md_array_type(element_type, Len(sub_sizes)))
        ptr_array_bytes == new_temp(k1)
        calloc_ptr_array == new_temp(k1 + 1)
        ptr_array == new_temp(k1 + 2)
        loop_label == new_label("md_loop", j)
        body_label == new_label("md_body", j + 1)
        end_label == new_label("md_end", j + 2)
        loop_var == new_temp(k1 + 3)
        current_idx == new_temp(k1 + 4)
        cond == new_temp(k1 + 5)
        sub_array == IF Len(sub_sizes) = 1
                     THEN generate_1d_array_creation(element_type, sub_sizes[1], k1 + 6)
                     ELSE generate_md_array_creation(element_type, sub_sizes, k1 + 6, j + 3)
        k2 == k1 + 6 + sub_array.temps
        elem_ptr == new_temp(k2)
        next_idx == new_temp(k2 + 1)
    IN ArrayResult(Ptr(sub_array_llvm_type), ptr_array,
          (IF ext THEN <<Conv("sext", first_size.ty, "i64", first_size_i64, first_size.val)>>
           ELSE <<>>)
          \o <<Instr("mul", "i64", ptr_array_bytes, first_size_i64, Lit(8)),
               CallocLine(calloc_ptr_array, ptr_array_bytes),
               Conv("bitcast", "i8*", Ptr(sub_array_llvm_type), ptr_array, calloc_ptr_array),
               Instr("alloca", "i64", loop_var, NoVal, NoVal),
               StoreLine("i64", Lit(0), loop_var),
               BrLine(loop_label),
               LabelLine(loop_label),
               LoadLine("i64", current_idx, loop_var),
               Instr("icmp slt", "i64", cond, current_idx, first_size_i64),
               CondBrLine(cond, body_label, end_label),
               LabelLine(body_label)>>
          \o sub_array.lines
          \o StoreSubArray(sub_array_llvm_type, sub_array.val, ptr_array, current_idx, elem_ptr)
          \o <<Instr("add", "i64", next_idx, current_idx, Lit(1)),
               StoreLine("i64", next_idx, loop_var),
               BrLine(loop_label),
               LabelLine(end_label)>>,
          k2 + 2 - k, 3 + sub_array.labels)

\* The stores of an array initializer or of the packed variadic arguments.
RECURSIVE ElementStores(_, _, _, _, _)
ElementStores(elem_llvm_type, cast_temp, elements, i, k) ==
    IF i >= Len(elements) THEN <<>>
    ELSE <<GepLine(elem_llvm_type, new_temp(k + i), cast_temp, Lit(i)),
           StoreLine(elem_llvm_type, elements[i + 1].val, new_temp(k + i))>>
         \o ElementStores(elem_llvm_type, cast_temp, elements, i + 1, k)

\* array.rs generate_array_init; elements are the operands of the element
\* expressions (literals), the first one giving the element type.
generate_array_init(elements, k) ==
    LET elem_llvm_type == elements[1].ty
        elem_size == LlvmElementSize(elem_llvm_type)
        num_elements == Len(elements)
        data_bytes == num_elements * elem_size
        total_bytes == data_bytes + HeaderBytes
        calloc_temp == new_temp(k)
        len_ptr == new_temp(k + 1)
        data_ptr == new_temp(k + 2)
        cast_temp == new_temp(k + 3)
    IN ArrayResult(Ptr(elem_llvm_type), cast_temp,
          <<CallocLine(calloc_temp, Lit(total_bytes)),
            Conv("bitcast", "i8*", "i32*", len_ptr, calloc_temp),
            StoreLine("i32", Lit(num_elements), len_ptr),
            GepLine("i8", data_ptr, calloc_temp, Lit(HeaderBytes)),
            Conv("bitcast", "i8*", Ptr(elem_llvm_type), cast_temp, data_ptr)>>
          \o ElementStores(elem_llvm_type, cast_temp, elements, 0, k + 4),
          4 + num_elements, 0)

\* call.rs pack_varargs_args: the fixed parameters by method name.
FixedParamCount(method_name) ==
    CASE method_name = "sum" -> 0
      [] method_name = "printAll" -> 1
      [] method_name = "multiplyAndAdd" -> 1
      [] OTHER -> 0

\* The temporaries one packed argument takes: two pointers, and the
\* truncation of an i64.
PackedArgTemps(arg) == IF arg.ty = "i64" THEN 3 ELSE 2

RECURSIVE PackedStores(_, _, _, _)
PackedStores(array_ptr, varargs, i, k) ==
    IF i >= Len(varargs) THEN [lines |-> <<>>, temps |-> 0]
    ELSE LET arg == varargs[i + 1]
             elem_ptr_i8 == new_temp(k)
             elem_ptr_i32 == new_temp(k + 1)
             truncated == new_temp(k + 2)
             rest == PackedStores(array_ptr, varargs, i + 1, k + PackedArgTemps(arg))
         IN [lines |-> <<GepLine("i8", elem_ptr_i8, array_ptr, Lit(i * 4)),
                         Conv("bitcast", "i8*", "i32*", elem_ptr_i32, elem_ptr_i8)>>
                       \o (IF arg.ty = "i64"
                           THEN <<Conv("trunc", "i64", "i32", truncated, arg.val),
                                  StoreLine("i32", truncated, elem_ptr_i32)>>
                           ELSE IF arg.ty = "i32"
                           THEN <<StoreLine("i32", arg.val, elem_ptr_i32)>>
                           ELSE <<>>)
                       \o rest.lines,
             temps |-> PackedArgTemps(arg) + rest.temps]

\* call.rs pack_varargs_args, for a call with more arguments than fixed
\* parameters: the array that carries the variadic ones.
pack_varargs_args(method_name, arg_results, k) ==
    LET fixed_param_count == FixedParamCount(method_name)
        varargs == SubSeq(arg_results, fixed_param_count + 1, Len(arg_results))
        array_size == Len(varargs)
        array_ptr == new_temp(k)
        total_size == array_size * 4
        stores == PackedStores(array_ptr, varargs, 0, k + 1)
    IN ArrayResult("i8*", array_ptr,
          <<CallocLine(array_ptr, Lit(total_size))>> \o stores.lines,
          1 + stores.temps, 0)

\* The lines of .length that read the count at the array pointer itself.
LengthLines_NoOffset(obj, k) ==
    <<Conv("bitcast", obj.ty, "i8*", new_temp(k), obj.val),
      GepLine("i8", new_temp(k + 1), new_temp(k), Lit(0)),
      Conv("bitcast", "i8*", "i32*", new_temp(k + 2), new_temp(k + 1)),
      LoadLine("i32", new_temp(k + 3), new_temp(k + 2))>>

\* member.rs generate_member_access, member "length" of an object whose
\* type ends with *: the load of the i32 in front of element 0.
LengthLines(obj, k) ==
    <<Conv("bitcast", obj.ty, "i8*", new_temp(k), obj.val),
      GepLine("i8", new_temp(k + 1), new_temp(k), Lit(LengthOffset)),
      Conv("bitcast", "i8*", "i32*", new_temp(k + 2), new_temp(k + 1)),
      LoadLine("i32", new_temp(k + 3), new_temp(k + 2))>>

\* array.rs get_array_element_ptr and generate_array_access with a literal
\* index: no bounds check is emitted.
ArrayAccessLines(array, index, k) ==
    LET ext == index.ty # "i64"
        k1 == k + (IF ext THEN 1 ELSE 0)
        index_i64 == IF ext THEN new_temp(k) ELSE index.val
        elem_type == IF EndsWithStar(array.ty) THEN Deref(array.ty) ELSE "i64"
        elem_ptr_temp == new_temp(k1)
        elem_temp == new_temp(k1 + 1)
    IN ArrayResult(elem_type, elem_temp,
          (IF ext THEN <<Conv("sext", index.ty, "i64", index_i64, index.val)>> ELSE <<>>)
          \o <<GepLine(elem_type, elem_ptr_temp, array.val, index_i64),
               LoadLine(elem_type, elem_temp, elem_ptr_temp)>>,
          k1 - k + 2, 0)

SizeLiterals == {"Int32", "Int64"}

\* generate_member_access waits for the operand of its object expression.
AwaitsObject ==
    /\ status = "running"
    /\ stack # <<>>
    /\ Top.fn = "member"
    /\ Top.pc = "object"

\* The object expression returned the array value r, whose dimensions have
\* the element counts dims.
ObjectReturned(origin, r, dims) ==
    /\ code' = code \o r.lines
    /\ temp_counter' = temp_counter + r.temps
    /\ label_counter' = label_counter + r.labels
    /\ stack' = ReplaceTop([Top EXCEPT !.pc = "length", !.origin = origin,
                                       !.obj = Operand(r.ty, r.val), !.dims = dims])
    /\ last_stmt' = origin
    /\ UNCHANGED <<loop_stack, scope_depth, mode, status, budget, nstmt, case_log>>

\* array.rs generate_array_creation: new T[n] or new T[n1][n2]..., every
\* size a literal of kind lit.
generate_array_creation(element_type, lit, dims) ==
    /\ AwaitsObject
    /\ LET sizes == [d \in 1..Len(dims) |-> Operand(LiteralType(lit), Lit(dims[d]))]
       IN ObjectReturned("creation",
              IF Len(sizes) = 1
              THEN generate_1d_array_creation(element_type, sizes[1], 0)
              ELSE generate_md_array_creation(element_type, sizes, 0, 0),
              dims)

\* Expr::ArrayInit with n literal elements of kind lit; an empty initializer
\* is an error.
generate_array_init_expression(lit, n) ==
    /\ AwaitsObject
    /\ IF n = 0
       THEN /\ status' = "error"
            /\ last_stmt' = "init"
            /\ UNCHANGED <<gen, stack, mode, budget, nstmt, case_log>>
       ELSE ObjectReturned("init",
                generate_array_init([i \in 1..n |-> Operand(LiteralType(lit), Lit(i))], 0),
                <<n>>)

\* call.rs generate_call_expression for a variadic method called with nargs
\* literal arguments of kind lit: the last argument the callee receives is
\* the packed array, on which the callee evaluates .length.
generate_call_expression(method_name, lit, nargs) ==
    /\ AwaitsObject
    /\ LET arg_results == [i \in 1..nargs |-> Operand(LiteralType(lit), Lit(i))]
       IN IF Len(arg_results) <= FixedParamCount(method_name)
          THEN \* nothing is packed: the callee receives no array
               /\ status' = "done"
               /\ stack' = ReplaceTop([Top EXCEPT !.pc = "unpacked"])
               /\ last_stmt' = "varargs"
               /\ UNCHANGED <<gen, mode, budget, nstmt, case_log>>
          ELSE ObjectReturned("varargs",
                   pack_varargs_args(method_name, arg_results, 0),
                   <<nargs - FixedParamCount(method_name)>>)

\* The object is an element of the array of arrays just produced.
generate_array_access(index) ==
    /\ status = "running"
    /\ stack # <<>>
    /\ Top.fn = "member"
    /\ Top.pc = "length"
    /\ Len(Top.dims) >= 2
    /\ index < Top.dims[1]
    /\ ObjectReturned("access", ArrayAccessLines(Top.obj, Operand("i32", Lit(index)), 0),
                      Tail(Top.dims))

\* member.rs generate_member_access for the member "length".
generate_member_access ==
    /\ status = "running"
    /\ stack # <<>>
    /\ Top.fn = "member"
    /\ Top.pc = "length"
    /\ IF EndsWithStar(Top.obj.ty)
       THEN /\ code' = code \o LengthLines(Top.obj, 0)
            /\ temp_counter' = temp_counter + 4
            /\ stack' = ReplaceTop([Top EXCEPT !.pc = "done",
                                               !.result = Operand("i32", new_temp(3))])
       ELSE /\ stack' = ReplaceTop([Top EXCEPT !.pc = "done",
                                               !.result = Operand("i8*", Top.obj.val)])
            /\ UNCHANGED <<code, temp_counter>>
    /\ status' = "done"
    /\ last_stmt' = "length"
    /\ UNCHANGED <<label_counter, loop_stack, scope_depth, mode, budget, nstmt, case_log>>

\* The generation of <array expression>.length.
InitArrays ==
    /\ code = <<>>
    /\ temp_counter = 0
    /\ label_counter = 0
    /\ loop_stack = <<>>
    /\ scope_depth = 1
    /\ stack = <<[fn |-> "member", pc |-> "object", origin |-> "", obj |-> NoOperand,
                  dims |-> <<>>, result |-> NoOperand]>>
    /\ mode = "ret"
    /\ status = "running"
    /\ budget = 0
    /\ nstmt = 0
    /\ last_stmt = "none"
    /\ case_log = <<>>

DimsOf(d) == [1..d -> 0..MaxLen]

NextArrays ==
    \/ \E element_type \in ElementTypes, lit \in SizeLiterals, d \in 1..MaxDims :
          \E dims \in DimsOf(d) : generate_array_creation(element_type, lit, dims)
    \/ \E lit \in {"Int32", "Int64", "Char"}, n \in 0..MaxLen :
          generate_array_init_expression(lit, n)
    \/ \E method_name \in {"sum", "printAll"}, lit \in SizeLiterals, nargs \in 0..MaxLen :
          generate_call_expression(method_name, lit, nargs)
    \/ \E index \in 0..MaxLen : generate_array_access(index)
    \/ generate_member_access

SpecArrays == InitArrays /\ [][NextArrays]_vars

(***************************************************************************)
(* An array of arrays: new T[n][m], then a[i][j] = v, then a read of       *)
(* a[i2][j2].  The array expression a is the value the creation returned.  *)
(***************************************************************************)
\* array.rs get_array_element_ptr: the address of array[index].
ElementPtrLines(array, index, k) ==
    LET ext == index.ty # "i64"
        k1 == k + (IF ext THEN 1 ELSE 0)
        index_i64 == IF ext THEN new_temp(k) ELSE index.val
        elem_type == IF EndsWithStar(array.ty) THEN Deref(array.ty) ELSE "i64"
        elem_ptr_temp == new_temp(k1)
    IN ArrayResult(elem_type, elem_ptr_temp,
          (IF ext THEN <<Conv("sext", index.ty, "i64", index_i64, index.val)>> ELSE <<>>)
          \o <<GepLine(elem_type, elem_ptr_temp, array.val, index_i64)>>,
          k1 - k + 1, 0)

\* assignment.rs generate_array_assignment and
\* generate_array_assignment_with_conversion for an integer value: the
\* store of value at elem_ptr, converted to the element type first.
ElementStoreLines(elem_type, elem_ptr, value, k) ==
    IF value.ty = elem_type
    THEN [lines |-> <<StoreLine(elem_type, value.val, elem_ptr)>>, temps |-> 0]
    ELSE [lines |-> <<Conv(IF Bits(elem_type) > Bits(value.ty) THEN "sext" ELSE "trunc",
                           value.ty, elem_type, new_temp(k), value.val),
                      StoreLine(elem_type, new_temp(k), elem_ptr)>>,
          temps |-> 1]

HoldsMatrix(pc) ==
    /\ status = "running"
    /\ stack # <<>>
    /\ Top.fn = "member"
    /\ Top.pc = pc
    /\ Len(Top.dims) = 2

\* assignment.rs generate_assignment for a[i][j] = v: the value, then the
\* element a[i] (an array access), then the address of its element j.
generate_array_assignment(i, j, lit, v) ==
    /\ HoldsMatrix("length")
    /\ i < Top.dims[1]
    /\ j < Top.dims[2]
    /\ LET value == Operand(LiteralType(lit), Lit(v))
           row == ArrayAccessLines(Top.obj, Operand("i32", Lit(i)), 0)
           elem == ElementPtrLines(Operand(row.ty, row.val), Operand("i32", Lit(j)), row.temps)
           st == ElementStoreLines(elem.ty, elem.val, value, row.temps + elem.temps)
       IN /\ code' = code \o row.lines \o elem.lines \o st.lines
          /\ temp_counter' = temp_counter + row.temps + elem.temps + st.temps
          /\ stack' = ReplaceTop([fn |-> "member", pc |-> "written", origin |-> "assignment",
                                  obj |-> Top.obj, dims |-> Top.dims, result |-> NoOperand,
                                  at |-> <<i, j>>, value |-> v, from |-> <<0, 0>>])
    /\ last_stmt' = "assignment"
    /\ UNCHANGED <<label_counter, loop_stack, scope_depth, mode, status, budget, nstmt,
                   case_log>>

\* array.rs generate_array_access for a[i][j] after the assignment.
generate_matrix_access(i, j) ==
    /\ HoldsMatrix("written")
    /\ i < Top.dims[1]
    /\ j < Top.dims[2]
    /\ LET row == ArrayAccessLines(Top.obj, Operand("i32", Lit(i)), 0)
           elem == ArrayAccessLines(Operand(row.ty, row.val), Operand("i32", Lit(j)),
                                    row.temps)
       IN /\ code' = code \o row.lines \o elem.lines
          /\ temp_counter' = temp_counter + row.temps + elem.temps
          /\ stack' = ReplaceTop([Top EXCEPT !.pc = "read", !.from = <<i, j>>,
                                             !.result = Operand(elem.ty, elem.val)])
    /\ status' = "done"
    /\ last_stmt' = "access"
    /\ UNCHANGED <<label_counter, loop_stack, scope_depth, mode, budget, nstmt, case_log>>

NextMatrix ==
    \/ \E element_type \in ElementTypes, lit \in SizeLiterals :
          \E dims \in DimsOf(2) : generate_array_creation(element_type, lit, dims)
    \/ \E i \in 0..MaxLen, j \in 0..MaxLen, lit \in SizeLiterals, v \in 1..MaxLen :
          generate_array_assignment(i, j, lit, v)
    \/ \E i \in 0..MaxLen, j \in 0..MaxLen : generate_matrix_access(i, j)

SpecMatrix == InitArrays /\ [][NextMatrix]_vars

(***************************************************************************)
(* Calls.  The type registry maps a class name to its parent ("" for none) *)
(* and to the overloads registered under a method name, in registration    *)
(* order; an overload is its parameter list.  A source type is a base kind *)
(* (with the class name of an object) under dims array wrappers.           *)
(***************************************************************************)
SourceType(kind, name, dims) == [kind |-> kind, name |-> name, dims |-> dims]
Scalar(kind) == SourceType(kind, "", 0)
Param(param_type, is_varargs) == [param_type |-> param_type, is_varargs |-> is_varargs]

RECURSIVE Repeat(_, _)
Repeat(s, n) == IF n = 0 THEN "" ELSE s \o Repeat(s, n - 1)

\* Vec<String>::join(sep)
RECURSIVE Join(_, _)
Join(words, sep) ==
    IF words = <<>> THEN ""
    ELSE IF Len(words) = 1 THEN words[1]
    ELSE words[1] \o sep \o Join(Tail(words), sep)

\* utils.rs llvm_type_to_signature: the code of an argument's LLVM type.
llvm_type_to_signature(llvm_type) ==
    CASE llvm_type = "i32" -> "i"
      [] llvm_type = "i64" -> "l"
      [] llvm_type = "float" -> "f"
      [] llvm_type = "double" -> "d"
      [] llvm_type = "i1" -> "b"
      [] llvm_type = "i8*" -> "s"
      [] llvm_type = "i8" -> "c"
      [] OTHER -> IF EndsWithStar(llvm_type) THEN "o" ELSE "x"

\* call.rs param_type_to_signature: the code of a declared parameter type;
\* Type::Array(inner) is "a" followed by the code of inner.
param_type_to_signature(ty, is_varargs_array) ==
    IF is_varargs_array THEN "ai"
    ELSE Repeat("a", ty.dims) \o
         (CASE ty.kind = "Int32" -> "i"
            [] ty.kind = "Int64" -> "l"
            [] ty.kind = "Float32" -> "f"
            [] ty.kind = "Float64" -> "d"
            [] ty.kind = "Bool" -> "b"
            [] ty.kind = "String" -> "s"
            [] ty.kind = "Char" -> "c"
            [] ty.kind = "Object" -> "o" \o ty.name
            [] OTHER -> "x")

\* call.rs build_function_name_from_method.
build_function_name_from_method(class_name, method_name, params, has_varargs_array) ==
    IF params = <<>> THEN class_name \o "." \o method_name
    ELSE LET param_types ==
                 [idx \in 1..Len(params) |->
                     param_type_to_signature(params[idx].param_type,
                         has_varargs_array /\ idx = Len(params) /\ params[idx].is_varargs)]
         IN class_name \o ".__" \o method_name \o "_" \o Join(param_types, "_")

\* The argument signature that names the types by the values of the
\* arguments.
ArgTypes_ByValue(processed_args, has_varargs_array) ==
    [idx \in 1..Len(processed_args) |->
        IF processed_args[idx].val[2] % 2 = 0 THEN "i" ELSE "l"]

\* call.rs generate_function_name: the codes of the argument types, the
\* packed array being "ai".
ArgTypes(processed_args, has_varargs_array) ==
    [idx \in 1..Len(processed_args) |->
        IF has_varargs_array /\ idx = Len(processed_args) THEN "ai"
        ELSE llvm_type_to_signature(processed_args[idx].ty)]

\* method.params.last().map(|p| p.is_varargs).unwrap_or(false)
IsVarargs(params) == params # <<>> /\ params[Len(params)].is_varargs

\* The arity test of both loops of generate_function_name.
ArityMatches(params, arg_count) ==
    IF IsVarargs(params) THEN arg_count >= Len(params) - 1 ELSE Len(params) = arg_count

get_class(registry, name) == IF name \in DOMAIN registry THEN <<registry[name]>> ELSE <<>>

\* class_info.methods.get(method_name)
MethodsNamed(class_info, method_name) ==
    IF method_name \in DOMAIN class_info.methods THEN class_info.methods[method_name]
    ELSE <<>>

First(S) == CHOOSE i \in S : \A k \in S : i <= k

\* call.rs generate_function_name, one round of its loop: the overload of
\* current_class_name chosen for the arguments, 0 when none matches.
ChosenOverload(methods, current_class_name, method_name, arg_types, arg_count, has_varargs_array) ==
    LET expected_sig == current_class_name \o ".__" \o method_name \o "_"
                            \o Join(arg_types, "_")
        exact == {i \in 1..Len(methods) :
                     /\ ArityMatches(methods[i], arg_count)
                     /\ build_function_name_from_method(current_class_name, method_name,
                            methods[i], has_varargs_array) = expected_sig}
        arity == {i \in 1..Len(methods) : ArityMatches(methods[i], arg_count)}
    IN IF exact # {} THEN First(exact)
       ELSE IF arity # {} THEN First(arity)
       ELSE 0

\* call.rs generate_function_name from current_class_name upwards: the
\* class and overload found (index 0: none) and the symbol name.
RECURSIVE ResolveFrom(_, _, _, _, _, _)
ResolveFrom(registry, current_class_name, class_name, method_name, processed_args, has_varargs_array) ==
    LET arg_types == ArgTypes(processed_args, has_varargs_array)
        arg_count == Len(processed_args)
        found == get_class(registry, current_class_name)
        methods == MethodsNamed(found[1], method_name)
        chosen == ChosenOverload(methods, current_class_name, method_name, arg_types,
                                 arg_count, has_varargs_array)
    IN IF found # <<>> /\ chosen # 0
       THEN [class |-> current_class_name, index |-> chosen, params |-> methods[chosen],
             name |-> build_function_name_from_method(current_class_name, method_name,
                          methods[chosen], has_varargs_array)]
       ELSE IF found # <<>> /\ found[1].parent # ""
       THEN ResolveFrom(registry, found[1].parent, class_name, method_name,
                        processed_args, has_varargs_array)
       ELSE [class |-> "", index |-> 0, params |-> <<>>,
             name |-> IF arg_types = <<>> THEN class_name \o "." \o method_name
                      ELSE class_name \o ".__" \o method_name \o "_"
                               \o Join(arg_types, "_")]

generate_function_name(registry, class_name, method_name, processed_args, has_varargs_array) ==
    ResolveFrom(registry, class_name, class_name, method_name, processed_args,
                has_varargs_array).name

\* call.rs is_varargs_method: some overload of the method in class_name is
\* variadic.
is_varargs_method(registry, class_name, method_name) ==
    /\ get_class(registry, class_name) # <<>>
    /\ \E i \in 1..Len(MethodsNamed(registry[class_name], method_name)) :
          IsVarargs(MethodsNamed(registry[class_name], method_name)[i])

\* The arguments of the call as the call emits them: k fixed arguments and
\* the packed array when more than the fixed count were given.
ProcessedArgs(method_name, arg_results, packed) ==
    IF Len(arg_results) <= FixedParamCount(method_name) THEN arg_results
    ELSE SubSeq(arg_results, 1, FixedParamCount(method_name))
             \o <<Operand(packed.ty, packed.val)>>

StringConstant(n) == <<"str", n>>

\* The argument expressions of a call, each a literal of the given kind:
\* an Int32 literal emits nothing, a string literal is the address of its
\* constant in a new temporary.
RECURSIVE GenerateArguments(_, _, _)
GenerateArguments(arg_kinds, i, k) ==
    IF i > Len(arg_kinds) THEN [results |-> <<>>, lines |-> <<>>, temps |-> 0]
    ELSE LET is_string == arg_kinds[i] = "String"
             rest == GenerateArguments(arg_kinds, i + 1, k + (IF is_string THEN 1 ELSE 0))
         IN IF is_string
            THEN [results |-> <<Operand("i8*", new_temp(k))>> \o rest.results,
                  lines |-> <<GepLine("i8", new_temp(k), StringConstant(i), Lit(0))>>
                                \o rest.lines,
                  temps |-> 1 + rest.temps]
            ELSE [results |-> <<Operand(LiteralType(arg_kinds[i]), Lit(temp_counter + i))>>
                                  \o rest.results,
                  lines |-> rest.lines,
                  temps |-> rest.temps]

\* The emitted call: "{temp} = call {ret} @{fn_name}({args})".
CallLine(ret_type, temp, fn_name, args) ==
    Instr("call", ret_type, temp, NoVal, NoVal) @@ [callee |-> fn_name, args |-> args]

\* The declared return type (as type_to_llvm gives it) of the overload
\* registered at place index in class_name: the overloads of the explored
\* registries differ in their return types.
MethodReturnType(class_name, index) ==
    IF class_name = "B" THEN "float"
    ELSE CASE index = 1 -> "i32" [] index = 2 -> "double" [] OTHER -> "i8"

\* call.rs get_method_return_type looks in class_name alone, with the two
\* loops of generate_function_name; without a match the type is Int64.
ReturnLlvmType(registry, class_name, method_name, processed_args, has_varargs_array) ==
    IF /\ get_class(registry, class_name) # <<>>
       /\ ChosenOverload(MethodsNamed(registry[class_name], method_name), class_name,
              method_name, ArgTypes(processed_args, has_varargs_array),
              Len(processed_args), has_varargs_array) # 0
    THEN MethodReturnType(class_name,
             ChosenOverload(MethodsNamed(registry[class_name], method_name), class_name,
                 method_name, ArgTypes(processed_args, has_varargs_array),
                 Len(processed_args), has_varargs_array))
    ELSE "i64"

\* call.rs generate_call_expression for a method of a class: the arguments,
\* the packing, the name of the target and the call.  The frame holds the
\* callee and the registry the generator was given; a second call with the
\* same callee and argument kinds follows the first.
generate_method_call ==
    /\ status = "running"
    /\ stack # <<>>
    /\ Top.fn = "call"
    /\ Top.pc \in {"callee", "called"}
    /\ LET f == Top
           is_varargs == is_varargs_method(f.registry, f.class_name, f.method_name)
           args == GenerateArguments(f.arg_kinds, 1, 0)
           arg_results == args.results
           packed == pack_varargs_args(f.method_name, arg_results, args.temps)
           has_varargs_array ==
               is_varargs /\ Len(arg_results) > FixedParamCount(f.method_name)
           processed_args == IF is_varargs
                             THEN ProcessedArgs(f.method_name, arg_results, packed)
                             ELSE arg_results
           k1 == args.temps + (IF has_varargs_array THEN packed.temps ELSE 0)
           resolved == ResolveFrom(f.registry, f.class_name, f.class_name, f.method_name,
                                   processed_args, has_varargs_array)
           fn_name == generate_function_name(f.registry, f.class_name, f.method_name,
                                             processed_args, has_varargs_array)
           ret == ReturnLlvmType(f.registry, f.class_name, f.method_name, processed_args,
                                 has_varargs_array)
       IN /\ code' = code \o args.lines
                          \o (IF has_varargs_array THEN packed.lines ELSE <<>>)
                          \o <<CallLine(ret, new_temp(k1), fn_name, processed_args)>>
          /\ temp_counter' = temp_counter + k1 + 1
          /\ stack' = ReplaceTop([f EXCEPT
                          !.pc = IF f.pc = "callee" THEN "called" ELSE "again",
                          !.previous = f.fn_name,
                          !.fn_name = fn_name,
                          !.arg_results = arg_results,
                          !.processed_args = processed_args,
                          !.resolved = [class |-> resolved.class, index |-> resolved.index,
                                        params |-> resolved.params],
                          !.start = Len(code)])
          /\ status' = IF f.pc = "called" THEN "done" ELSE status
    /\ last_stmt' = "call"
    /\ UNCHANGED <<label_counter, loop_stack, scope_depth, mode, budget, nstmt, case_log>>

MaxOverloads == 2

Int32Type == Scalar("Int32")
StringType == Scalar("String")

\* The overloads a class may register under the called name.
OverloadPool ==
    { <<>>,
      <<Param(Int32Type, FALSE)>>,
      <<Param(Int32Type, TRUE)>>,
      <<Param(StringType, FALSE)>>,
      <<Param(StringType, FALSE), Param(Int32Type, TRUE)>>,
      <<Param(Int32Type, FALSE), Param(Int32Type, FALSE)>> }

InheritedPool ==
    { <<Param(Int32Type, FALSE)>>, <<Param(Int32Type, TRUE)>>, <<Param(StringType, FALSE)>> }

\* Lists of up to n different overloads.
OverloadLists(pool, n) ==
    UNION {{l \in [1..len -> pool] : \A a, b \in 1..len : a # b => l[a] # l[b]} :
           len \in 0..n}

ArgKindLists == UNION {[1..n -> {"Int32", "String"}] : n \in 0..MaxLen}

Registry(method_name, own, parent, inherited) ==
    ("A" :> [parent |-> parent, methods |-> (method_name :> own)])
    @@ ("B" :> [parent |-> "", methods |-> (method_name :> inherited)])

InitCall ==
    /\ code = <<>>
    /\ temp_counter = 0
    /\ label_counter = 0
    /\ loop_stack = <<>>
    /\ scope_depth = 1
    /\ \E method_name \in {"printAll", "f"}, own \in OverloadLists(OverloadPool, MaxOverloads),
          parent \in {"", "B"}, inherited \in OverloadLists(InheritedPool, 1),
          arg_kinds \in ArgKindLists :
          stack = <<[fn |-> "call", pc |-> "callee",
                     registry |-> Registry(method_name, own, parent, inherited),
                     class_name |-> "A", method_name |-> method_name,
                     arg_kinds |-> arg_kinds, fn_name |-> "", previous |-> "",
                     arg_results |-> <<>>, processed_args |-> <<>>,
                     resolved |-> [class |-> "", index |-> 0, params |-> <<>>],
                     start |-> 0]>>
    /\ mode = "ret"
    /\ status = "running"
    /\ budget = 0
    /\ nstmt = 0
    /\ last_stmt = "none"
    /\ case_log = <<>>

NextCall == generate_method_call

SpecCall == InitCall /\ [][NextCall]_vars

(***************************************************************************)
(* The argument of a call by its source type: a literal, a new object or   *)
(* a new array, and the signature codes of the argument and of a parameter *)
(* declared with the same type.                                            *)
(***************************************************************************)
\* The integer tag of a class (IRGenerator::get_type_id_value).
get_type_id_value(class_name) ==
    CASE class_name = "A" -> 1 [] class_name = "B" -> 2 [] class_name = "C" -> 3
      [] OTHER -> 0

ObjectBytes == 16

\* new.rs generate_new_expression: a zeroed block with the tag of the class
\* in its first 4 bytes.
generate_new_expression(class_name, k) ==
    LET calloc_temp == new_temp(k)
        type_id_ptr == new_temp(k + 1)
        cast_temp == new_temp(k + 2)
    IN ArrayResult("i8*", cast_temp,
          <<CallocLine(calloc_temp, Lit(ObjectBytes)),
            Conv("bitcast", "i8*", "i32*", type_id_ptr, calloc_temp),
            StoreLine("i32", Lit(get_type_id_value(class_name)), type_id_ptr),
            Conv("bitcast", "i8*", "i8*", cast_temp, calloc_temp)>>,
          3, 0)

ScalarKinds == {"Int32", "Int64", "Float32", "Float64", "Bool", "String", "Char"}

\* The source types of the arguments: scalars, objects of two classes and
\* arrays of up to MaxDims dimensions.
ArgumentTypes ==
    {Scalar(kind) : kind \in ScalarKinds}
    \cup {SourceType("Object", c, 0) : c \in {"A", "B"}}
    \cup {SourceType(kind, "", dims) : kind \in ElementTypes, dims \in 1..MaxDims}

\* The operand an argument expression of source type ty returns: an array
\* is created with one element per dimension, an object with new, a scalar
\* is a literal.
GenerateArgument(ty, k, j) ==
    IF ty.dims = 1
    THEN generate_1d_array_creation(ty.kind, Operand("i32", Lit(1)), k)
    ELSE IF ty.dims > 1
    THEN generate_md_array_creation(ty.kind, [d \in 1..ty.dims |-> Operand("i32", Lit(1))],
                                    k, j)
    ELSE IF ty.kind = "Object" THEN generate_new_expression(ty.name, k)
    ELSE IF ty.kind = "String"
    THEN ArrayResult("i8*", new_temp(k),
                     <<GepLine("i8", new_temp(k), StringConstant(1), Lit(0))>>, 1, 0)
    ELSE ArrayResult(LiteralType(ty.kind), Lit(1), <<>>, 0, 0)

\* The arguments of a call f(x, y) with x and y of the source types the
\* frame holds, and the codes generate_function_name gives them.
generate_call_arguments ==
    /\ status = "running"
    /\ stack # <<>>
    /\ Top.fn = "signature"
    /\ Top.pc = "declared"
    /\ LET x == GenerateArgument(Top.types[1], 0, 0)
           y == GenerateArgument(Top.types[2], x.temps, x.labels)
           processed_args == <<Operand(x.ty, x.val), Operand(y.ty, y.val)>>
       IN /\ code' = code \o x.lines \o y.lines
          /\ temp_counter' = temp_counter + x.temps + y.temps
          /\ label_counter' = label_counter + x.labels + y.labels
          /\ stack' = ReplaceTop([Top EXCEPT !.pc = "encoded",
                                             !.processed_args = processed_args,
                                             !.arg_types = ArgTypes(processed_args, FALSE)])
    /\ status' = "done"
    /\ last_stmt' = "call"
    /\ UNCHANGED <<loop_stack, scope_depth, mode, budget, nstmt, case_log>>

InitSignature ==
    /\ code = <<>>
    /\ temp_counter = 0
    /\ label_counter = 0
    /\ loop_stack = <<>>
    /\ scope_depth = 1
    /\ \E x \in ArgumentTypes, y \in ArgumentTypes :
          stack = <<[fn |-> "signature", pc |-> "declared", types |-> <<x, y>>,
                     processed_args |-> <<>>, arg_types |-> <<>>]>>
    /\ mode = "ret"
    /\ status = "running"
    /\ budget = 0
    /\ nstmt = 0
    /\ last_stmt = "none"
    /\ case_log = <<>>

NextSignature == generate_call_arguments

SpecSignature == InitSignature /\ [][NextSignature]_vars

(***************************************************************************)
(* instanceof.  The registry of this part maps a class name to its parent  *)
(* ("" for none) and the interfaces the class lists; `order` is the order  *)
(* in which registry.classes.values() yields the classes.                  *)
(***************************************************************************)
ClassNames == {"A", "B", "C"}
InterfaceNames == {"I", "J"}

NullVal == <<"null", 0>>
IcmpEqLine(ty, dst, x, y) == Instr("icmp eq", ty, dst, x, y)
PhiLine(dst, x, lx, y, ly) == Line("phi", "i1", dst, x, y, lx, ly)

\* literal.rs: the null literal.
NullLiteral == Operand("i64", Lit(0))

\* The walk over the parent links of generate_type_check, from parent_name.
RECURSIVE HasAncestor(_, _, _, _)
HasAncestor(registry, parent_name, target_class, fuel) ==
    IF parent_name = "" \/ fuel = 0 THEN FALSE
    ELSE IF parent_name = target_class THEN TRUE
    ELSE IF parent_name \in DOMAIN registry
    THEN HasAncestor(registry, registry[parent_name].parent, target_class, fuel - 1)
    ELSE FALSE

\* The walk over the parent links of generate_interface_check.
RECURSIVE AncestorLists(_, _, _, _)
AncestorLists(registry, parent_name, interface_name, fuel) ==
    IF parent_name = "" \/ fuel = 0 THEN FALSE
    ELSE IF parent_name \in DOMAIN registry
    THEN \/ interface_name \in registry[parent_name].interfaces
         \/ AncestorLists(registry, registry[parent_name].parent, interface_name, fuel - 1)
    ELSE FALSE

TypeIds(names) == [i \in 1..Len(names) |-> get_type_id_value(names[i])]

all_matching_type_ids(registry, order, target_class) ==
    <<get_type_id_value(target_class)>>
    \o TypeIds(SelectSeq(order, LAMBDA c :
                  HasAncestor(registry, registry[c].parent, target_class, Len(order))))

\* The filter of generate_interface_check without its walk over the parents.
implementing_type_ids_Own(registry, order, interface_name) ==
    TypeIds(SelectSeq(order, LAMBDA c : interface_name \in registry[c].interfaces))

implementing_type_ids(registry, order, interface_name) ==
    TypeIds(SelectSeq(order, LAMBDA c :
        \/ interface_name \in registry[c].interfaces
        \/ AncestorLists(registry, registry[c].parent, interface_name, Len(order))))

\* The comparison chain both checks emit: one icmp and one branch per tag,
\* from the i-th on; the last branch falls to false_label.
RECURSIVE TagChain(_, _, _, _, _, _, _, _)
TagChain(prefix, type_ids, i, actual_type_id, true_label, false_label, k, j) ==
    IF i > Len(type_ids) THEN <<>>
    ELSE LET is_match == new_temp(k + i - 1)
             last == (i = Len(type_ids))
             next_check_label == IF last THEN false_label ELSE new_label(prefix, j + i - 1)
         IN <<IcmpEqLine("i32", is_match, actual_type_id, Lit(type_ids[i])),
              CondBrLine(is_match, true_label, next_check_label)>>
            \o (IF last THEN <<>> ELSE <<LabelLine(next_check_label)>>)
            \o TagChain(prefix, type_ids, i + 1, actual_type_id, true_label, false_label,
                        k, j)

generate_type_check(registry, order, actual_type_id, target_class, true_label, false_label, k, j) ==
    LET ids == all_matching_type_ids(registry, order, target_class)
    IN [lines |-> TagChain("typecheck.class", ids, 1, actual_type_id, true_label,
                           false_label, k, j),
        temps |-> Len(ids), labels |-> Len(ids) - 1]

generate_interface_check(registry, order, actual_type_id, interface_name, true_label, false_label, k, j) ==
    LET ids == implementing_type_ids(registry, order, interface_name)
    IN IF ids = <<>>
       THEN [lines |-> <<BrLine(false_label)>>, temps |-> 0, labels |-> 0]
       ELSE [lines |-> TagChain("interface_check.class", ids, 1, actual_type_id,
                                true_label, false_label, k, j),
             temps |-> Len(ids), labels |-> Len(ids) - 1]

\* The operand expression of the instanceof: new C() or the null literal.
OperandExpression(expr) ==
    IF expr.kind = "new" THEN generate_new_expression(expr.class, 0)
    ELSE ArrayResult(NullLiteral.ty, NullLiteral.val, <<>>, 0, 0)

generate_instanceof_expression ==
    /\ status = "running"
    /\ stack # <<>>
    /\ Top.fn = "instanceof"
    /\ Top.pc = "operand"
    /\ LET e == OperandExpression(Top.expr)
           k == e.temps
           null_label == new_label("instanceof.null", 0)
           check_label == new_label("instanceof.check", 1)
           true_label == new_label("instanceof.true", 2)
           false_label == new_label("instanceof.false", 3)
           end_label == new_label("instanceof.end", 4)
           is_null == new_temp(k)
           type_id_ptr == new_temp(k + 1)
           actual_type_id == new_temp(k + 2)
           is_interface == Top.target \in InterfaceNames
           check == IF is_interface
                    THEN generate_interface_check(Top.registry, Top.order, actual_type_id,
                                                  Top.target, true_label, false_label,
                                                  k + 3, 5)
                    ELSE generate_type_check(Top.registry, Top.order, actual_type_id,
                                             Top.target, true_label, false_label,
                                             k + 3, 5)
           result_temp == new_temp(k + 3 + check.temps)
       IN /\ code' = code \o e.lines
                \o <<IF EndsWithStar(e.ty)
                     THEN IcmpEqLine(e.ty, is_null, e.val, NullVal)
                     ELSE IcmpEqLine("i1", is_null, Lit(0), Lit(1)),
                     CondBrLine(is_null, null_label, check_label),
                     LabelLine(null_label),
                     BrLine(false_label),
                     LabelLine(check_label),
                     Conv("bitcast", e.ty, "i32*", type_id_ptr, e.val),
                     LoadLine("i32", actual_type_id, type_id_ptr)>>
                \o check.lines
                \o <<LabelLine(true_label),
                     BrLine(end_label),
                     LabelLine(false_label),
                     BrLine(end_label),
                     LabelLine(end_label),
                     PhiLine(result_temp, Lit(1), true_label, Lit(0), false_label)>>
          /\ temp_counter' = temp_counter + k + 4 + check.temps
          /\ label_counter' = label_counter + 5 + check.labels
          /\ stack' = ReplaceTop([Top EXCEPT !.pc = "tested",
                                             !.result = Operand("i1", result_temp)])
    /\ status' = "done"
    /\ last_stmt' = "instanceof"
    /\ UNCHANGED <<loop_stack, scope_depth, mode, budget, nstmt, case_log>>

\* The class hierarchies of the explored programs: B may extend A, C may
\* extend A or B, and each class may list I; nobody lists J.
Hierarchies ==
    {[c \in ClassNames |->
        [parent |-> CASE c = "A" -> "" [] c = "B" -> pb [] OTHER -> pc,
         interfaces |-> IF c \in listing THEN {"I"} ELSE {}]] :
     pb \in {"", "A"}, pc \in {"", "A", "B"}, listing \in SUBSET ClassNames}

Orders ==
    {o \in [1..3 -> ClassNames] : \A a, b \in 1..3 : o[a] = o[b] => a = b}

OperandExpressions ==
    {[kind |-> "new", class |-> c] : c \in ClassNames} \cup {[kind |-> "null", class |-> ""]}

InitInstanceOf ==
    /\ code = <<>>
    /\ temp_counter = 0
    /\ label_counter = 0
    /\ loop_stack = <<>>
    /\ scope_depth = 1
    /\ \E registry \in Hierarchies, order \in Orders, expr \in OperandExpressions,
          target \in ClassNames \cup InterfaceNames :
          stack = <<[fn |-> "instanceof", pc |-> "operand", registry |-> registry,
                     order |-> order, expr |-> expr, target |-> target,
                     result |-> NoOperand]>>
    /\ mode = "ret"
    /\ status = "running"
    /\ budget = 0
    /\ nstmt = 0
    /\ last_stmt = "none"
    /\ case_log = <<>>

NextInstanceOf == generate_instanceof_expression

SpecInstanceOf == InitInstanceOf /\ [][NextInstanceOf]_vars

(***************************************************************************)
(* Lambda expressions.  A function body of expression statements: each is  *)
(* a binary expression (whose operands are literals, identifiers or binary *)
(* expressions) or a lambda, whose body is again such an expression.  The  *)
(* bottom frame is the function; it keeps IRGenerator.lambda_functions.    *)
(* nstmt counts the binary and lambda nodes drawn so far.  The binary      *)
(* operator is the division, which emits the promotion of its operands,    *)
(* the zero-check blocks and the instruction.                              *)
(***************************************************************************)
MaxExprNodes == 4

DefineLine(return_type, lambda_name, nparams) ==
    Instr("define", return_type, NoVal, <<"lambda", lambda_name>>, Lit(nparams))
EntryLabel == <<"entry", 0>>
CloseLine == Instr("}", "", NoVal, NoVal, NoVal)
RetLine(ty, val) == Instr("ret", ty, NoVal, val, NoVal)
AllocaLine(ty, dst) == Instr("alloca", ty, dst, NoVal, NoVal)

\* lambda.rs line 97 with the counter left as the lambda's function left it.
RestoredTempCounter_Kept(saved_temp_counter, current) == current

\* lambda.rs line 97: self.temp_counter = saved_temp_counter.
RestoredTempCounter(saved_temp_counter, current) == saved_temp_counter

\* The frame below the top one, to which the top generator returns.
Below == stack[Len(stack) - 1]

AwaitsExpression ==
    /\ status = "running"
    /\ stack # <<>>
    /\ \/ Top.fn = "function"
       \/ Top.fn = "lambda" /\ Top.pc = "body"
       \/ Top.fn = "binary" /\ Top.pc \in {"left", "right"}

\* The frame f after the expression it waited for returned v.  An
\* expression statement drops the value.
ExpressionReturned(f, v) ==
    IF f.fn = "binary" THEN OperandReturned(f, v)
    ELSE IF f.fn = "lambda" THEN [f EXCEPT !.pc = "return", !.value = v]
    ELSE f

\* binary.rs generate_binary_expression, entered.
begin_binary_expression ==
    /\ AwaitsExpression
    /\ nstmt < MaxExprNodes
    /\ stack' = Push([fn |-> "binary", pc |-> "left", op |-> "", left |-> NoOperand,
                      right |-> NoOperand, result |-> NoOperand, start |-> 0])
    /\ nstmt' = nstmt + 1
    /\ last_stmt' = "binary"
    /\ UNCHANGED <<gen, mode, status, budget, case_log>>

\* binary.rs generate_binary_expression after both operands, returning to
\* the generator that asked for the expression.
finish_binary_expression(op) ==
    /\ status = "running"
    /\ Len(stack) > 1
    /\ Top.fn = "binary"
    /\ Top.pc = "op"
    /\ LET f == Top
           temp == new_temp(0)
           r == IF op = "Add"
                THEN generate_add(f.left.ty, f.left.val, f.right.ty, f.right.val, temp)
                ELSE generate_div(f.left.ty, f.left.val, f.right.ty, f.right.val, temp)
       IN /\ code' = code \o r.lines
          /\ temp_counter' = temp_counter + 1 + r.temps
          /\ label_counter' = label_counter + r.labels
          /\ stack' = [Pop EXCEPT ![Len(stack) - 1] =
                          ExpressionReturned(Below, Operand(r.ty, r.val))]
          /\ status' = IF r.ok THEN status ELSE "error"
    /\ last_stmt' = "binary"
    /\ UNCHANGED <<loop_stack, scope_depth, mode, budget, nstmt, case_log>>

\* lambda.rs generate_lambda up to the body: the name takes a temporary, the
\* buffer and the counter are saved, the counter restarts at 0, the header
\* and one alloca and store per parameter are emitted.
generate_lambda(nparams) ==
    /\ AwaitsExpression
    /\ Top.fn # "binary"
    /\ nstmt < MaxExprNodes
    /\ LET temp == temp_counter
           saved_code == code
           saved_temp_counter == temp_counter + 1
       IN /\ code' = <<DefineLine("i64", temp, nparams), LabelLine(EntryLabel)>>
                \o (IF nparams = 1
                    THEN <<AllocaLine("i64", Tmp(0)), StoreLine("i64", <<"param", 0>>, Tmp(0))>>
                    ELSE <<>>)
          /\ temp_counter' = nparams
          /\ stack' = Push([fn |-> "lambda", pc |-> "body", lambda_name |-> temp,
                            saved_code |-> saved_code,
                            saved_temp_counter |-> saved_temp_counter,
                            value |-> NoOperand])
    /\ scope_depth' = scope_depth + 1
    /\ nstmt' = nstmt + 1
    /\ last_stmt' = "lambda"
    /\ UNCHANGED <<label_counter, loop_stack, mode, status, budget, case_log>>

\* lambda.rs generate_lambda after the body expression: return of the
\* value, end of the function, the buffer and the counter restored, the
\* function pushed on lambda_functions, and the function pointer.
finish_lambda ==
    /\ status = "running"
    /\ Len(stack) > 1
    /\ Top.fn = "lambda"
    /\ Top.pc = "return"
    /\ LET f == Top
           ext == f.value.ty = "i32"
           lambda_code ==
               code \o (IF ext
                        THEN <<Conv("sext", "i32", "i64", new_temp(0), f.value.val),
                               RetLine("i64", new_temp(0))>>
                        ELSE <<RetLine("i64", f.value.val)>>)
                    \o <<CloseLine>>
           restored == RestoredTempCounter(f.saved_temp_counter,
                                           temp_counter + (IF ext THEN 1 ELSE 0))
           temp == Tmp(restored)
           returned == [Pop EXCEPT ![Len(stack) - 1] =
                           ExpressionReturned(Below, Operand("i8*", temp))]
       IN /\ code' = Append(f.saved_code,
                            Conv("bitcast", "void (i64)*", "i8*", temp,
                                 <<"lambda", f.lambda_name>>))
          /\ temp_counter' = restored + 1
          /\ stack' = [returned EXCEPT ![1].lambda_functions = Append(@, lambda_code)]
    /\ scope_depth' = scope_depth - 1
    /\ last_stmt' = "lambda"
    /\ UNCHANGED <<label_counter, loop_stack, mode, status, budget, nstmt, case_log>>

InitLambda ==
    /\ code = <<>>
    /\ temp_counter = 0
    /\ label_counter = 0
    /\ loop_stack = <<>>
    /\ scope_depth = 1
    /\ stack = <<[fn |-> "function", pc |-> "statement", lambda_functions |-> <<>>]>>
    /\ mode = "ret"
    /\ status = "running"
    /\ budget = 0
    /\ nstmt = 0
    /\ last_stmt = "none"
    /\ case_log = <<>>

NextLambda ==
    \/ begin_binary_expression
    \/ generate_literal("Int32")
    \/ generate_identifier("i64")
    \/ finish_binary_expression("Div")
    \/ \E nparams \in 0..1 : generate_lambda(nparams)
    \/ finish_lambda

SpecLambda == InitLambda /\ [][NextLambda]_vars

(***************************************************************************)
(* Identifiers.  The tables the generator resolves a name in are kept in   *)
(* the frame: the classes of the registry, current_class, static_field_map *)
(* (keyed "Class.field"), the variables the scope manager holds and the    *)
(* flat var_types map.  The storage a load reads is <<table, name>>.       *)
(***************************************************************************)
VariableNames == {"x", "y"}

StaticKey(current_class, name) == current_class \o "." \o name

\* The type each table gives a name it declares.
ScopeType == "i32"
StaticType == "i64"
LegacyType == "double"
UnknownType == "i64"

IdentifierResult(ty, val, lines, temps) ==
    [ty |-> ty, val |-> val, lines |-> lines, temps |-> temps]

\* identifier.rs generate_identifier in the environment env.
ResolveIdentifier(env, name, k) ==
    IF name \in env.classes
    THEN IdentifierResult("i64", Lit(0), <<>>, 0)
    ELSE IF env.current_class # ""
            /\ StaticKey(env.current_class, name) \in DOMAIN env.static_field_map
    THEN LET field_info == env.static_field_map[StaticKey(env.current_class, name)]
             temp == new_temp(k)
         IN IdentifierResult(field_info.llvm_type, temp,
                <<Instr("load", field_info.llvm_type, temp, <<"static", field_info.name>>,
                        NoVal)>>, 1)
    ELSE LET temp == new_temp(k)
             scoped == name \in DOMAIN env.scope_manager
             var_type == IF scoped THEN env.scope_manager[name].var_type
                         ELSE IF name \in DOMAIN env.var_types THEN env.var_types[name]
                         ELSE UnknownType
             llvm_name == IF scoped THEN <<"scope", env.scope_manager[name].llvm_name>>
                          ELSE <<"legacy", name>>
         IN IdentifierResult(var_type, temp,
                <<Instr("load", var_type, temp, llvm_name, NoVal)>>, 1)

generate_identifier_named(name) ==
    /\ status = "running"
    /\ stack # <<>>
    /\ Top.fn = "identifier"
    /\ Top.pc = "name"
    /\ LET r == ResolveIdentifier(Top.env, name, 0)
       IN /\ code' = code \o r.lines
          /\ temp_counter' = temp_counter + r.temps
          /\ stack' = ReplaceTop([Top EXCEPT !.pc = "loaded", !.name = name,
                                             !.result = Operand(r.ty, r.val)])
    /\ status' = "done"
    /\ last_stmt' = "identifier"
    /\ UNCHANGED <<label_counter, loop_stack, scope_depth, mode, budget, nstmt, case_log>>

\* The environments of the explored programs: class A exists; each of x, y
\* may be a static field of A, a variable in scope and an entry of the flat
\* map; the method being generated is in class A or in no class.
Environments ==
    {[classes |-> {"A"},
      current_class |-> current_class,
      static_field_map |->
          [key \in {StaticKey("A", n) : n \in statics} |->
              [llvm_type |-> StaticType, name |-> key]],
      scope_manager |-> [n \in locals |-> [var_type |-> ScopeType, llvm_name |-> n]],
      var_types |-> [n \in legacy |-> LegacyType]] :
     current_class \in {"", "A"}, statics \in SUBSET VariableNames,
     locals \in SUBSET VariableNames, legacy \in SUBSET VariableNames}

InitIdentifier ==
    /\ code = <<>>
    /\ temp_counter = 0
    /\ label_counter = 0
    /\ loop_stack = <<>>
    /\ scope_depth = 1
    /\ \E env \in Environments :
          stack = <<[fn |-> "identifier", pc |-> "name", env |-> env, name |-> "",
                     result |-> NoOperand]>>
    /\ mode = "ret"
    /\ status = "running"
    /\ budget = 0
    /\ nstmt = 0
    /\ last_stmt = "none"
    /\ case_log = <<>>

NextIdentifier == \E name \in VariableNames \cup {"A"} : generate_identifier_named(name)

SpecIdentifier == InitIdentifier /\ [][NextIdentifier]_vars

(***************************************************************************)
(* Coercion of a value to a declared type: `return e;` in a function of    *)
(* return type ret_type, and `x = e;` for a variable x of type var_type.   *)
(* e is a variable of type value_type; its load takes the first temporary. *)
(***************************************************************************)
ScalarTypes == IntTypes \cup FloatTypes

CoercionResult(ty, val, lines, temps) ==
    [ty |-> ty, val |-> val, lines |-> lines, temps |-> temps]

\* return_stmt.rs generate_return_statement, after the expression.
ReturnLines(value, ret_type, k) ==
    LET temp == new_temp(k)
    IN IF ret_type = "void" THEN CoercionResult("void", NoVal, <<RetVoidLine>>, 0)
       ELSE IF value.ty = ret_type
       THEN CoercionResult(value.ty, value.val, <<RetLine(value.ty, value.val)>>, 0)
       ELSE IF value.ty = "double" /\ ret_type = "float"
       THEN CoercionResult("float", temp,
                <<Conv("fptrunc", "double", "float", temp, value.val),
                  RetLine("float", temp)>>, 1)
       ELSE IF value.ty = "float" /\ ret_type = "double"
       THEN CoercionResult("double", temp,
                <<Conv("fpext", "float", "double", temp, value.val),
                  RetLine("double", temp)>>, 1)
       ELSE IF StartsWithI(value.ty) /\ StartsWithI(ret_type)
       THEN CoercionResult(ret_type, temp,
                <<Conv(IF Bits(ret_type) > Bits(value.ty) THEN "sext" ELSE "trunc",
                       value.ty, ret_type, temp, value.val),
                  RetLine(ret_type, temp)>>, 1)
       ELSE CoercionResult(value.ty, value.val, <<RetLine(value.ty, value.val)>>, 1)

\* assignment.rs generate_assignment_with_conversion.
generate_assignment_with_conversion(var_type, llvm_name, value, k) ==
    LET temp == new_temp(k)
    IN IF value.ty = "double" /\ var_type = "float"
       THEN CoercionResult("float", temp,
                <<Conv("fptrunc", "double", "float", temp, value.val),
                  StoreLine("float", temp, llvm_name)>>, 1)
       ELSE IF value.ty = "float" /\ var_type = "double"
       THEN CoercionResult("double", temp,
                <<Conv("fpext", "float", "double", temp, value.val),
                  StoreLine("double", temp, llvm_name)>>, 1)
       ELSE IF StartsWithI(value.ty) /\ var_type \in FloatTypes
       THEN CoercionResult(var_type, temp,
                <<Conv("sitofp", value.ty, var_type, temp, value.val),
                  StoreLine(var_type, temp, llvm_name)>>, 1)
       ELSE IF StartsWithI(value.ty) /\ StartsWithI(var_type)
       THEN CoercionResult(var_type, temp,
                <<Conv(IF Bits(var_type) > Bits(value.ty) THEN "sext" ELSE "trunc",
                       value.ty, var_type, temp, value.val),
                  StoreLine(var_type, temp, llvm_name)>>, 1)
       ELSE CoercionResult(var_type, value.val,
                <<StoreLine(var_type, value.val, llvm_name)>>, 1)

\* assignment.rs generate_variable_assignment for a variable the scope
\* manager holds with type var_type.
AssignmentLines(var_type, llvm_name, value, k) ==
    IF value.ty # var_type
    THEN generate_assignment_with_conversion(var_type, llvm_name, value, k)
    ELSE CoercionResult(value.ty, value.val,
                        <<StoreLine(var_type, value.val, llvm_name)>>, 0)

AwaitsCoercion ==
    /\ status = "running"
    /\ stack # <<>>
    /\ Top.fn = "coerce"
    /\ Top.pc = "value"

ValueLoad(value_type) == Instr("load", value_type, new_temp(0), <<"var", 0>>, NoVal)

generate_return_of_value ==
    /\ AwaitsCoercion
    /\ LET value == Operand(Top.value_type, new_temp(0))
           r == ReturnLines(value, Top.target_type, 1)
       IN /\ code' = code \o <<ValueLoad(Top.value_type)>> \o r.lines
          /\ temp_counter' = temp_counter + 1 + r.temps
          /\ stack' = ReplaceTop([Top EXCEPT !.pc = "returned", !.value = value])
    /\ status' = "done"
    /\ last_stmt' = "return"
    /\ UNCHANGED <<label_counter, loop_stack, scope_depth, mode, budget, nstmt, case_log>>

generate_assignment_of_value ==
    /\ AwaitsCoercion
    /\ Top.target_type # "void"
    /\ LET value == Operand(Top.value_type, new_temp(0))
           r == AssignmentLines(Top.target_type, <<"var", 1>>, value, 1)
       IN /\ code' = code \o <<ValueLoad(Top.value_type)>> \o r.lines
          /\ temp_counter' = temp_counter + 1 + r.temps
          /\ stack' = ReplaceTop([Top EXCEPT !.pc = "assigned", !.value = value])
    /\ status' = "done"
    /\ last_stmt' = "assignment"
    /\ UNCHANGED <<label_counter, loop_stack, scope_depth, mode, budget, nstmt, case_log>>

InitReturn ==
    /\ code = <<>>
    /\ temp_counter = 0
    /\ label_counter = 0
    /\ loop_stack = <<>>
    /\ scope_depth = 1
    /\ \E value_type \in ScalarTypes, target_type \in ScalarTypes \cup {"void"} :
          stack = <<[fn |-> "coerce", pc |-> "value", value_type |-> value_type,
                     target_type |-> target_type, value |-> NoOperand]>>
    /\ mode = "ret"
    /\ status = "running"
    /\ budget = 0
    /\ nstmt = 0
    /\ last_stmt = "none"
    /\ case_log = <<>>

NextReturn ==
    \/ generate_return_of_value
    \/ generate_assignment_of_value

SpecReturn == InitReturn /\ [][NextReturn]_vars

(***************************************************************************)
(* Ternary expressions.  An arm of c ? a : b is an integer literal, a      *)
(* division of two integer literals (with its zero-check) or a ternary;    *)
(* the condition is a boolean literal.  nstmt counts the ternaries.        *)
(***************************************************************************)
MaxTernaries == 3

AddZeroLine(ty, dst, val) == Instr("add", ty, dst, val, Lit(0))
TypedPhiLine(ty, dst, x, lx, y, ly) == Line("phi", ty, dst, x, y, lx, ly)

AwaitsArm ==
    /\ status = "running"
    /\ stack # <<>>
    /\ Top.pc \in {"then", "else", "expr"}

\* The frame f after the expression it waited for returned v.
ArmReturned(f, v) ==
    [f EXCEPT !.pc = CASE f.pc = "then" -> "then_done"
                       [] f.pc = "else" -> "else_done"
                       [] OTHER -> "done",
              !.value = v]

\* ternary.rs generate_ternary_expression up to the true branch.
generate_ternary_expression ==
    /\ AwaitsArm
    /\ nstmt < MaxTernaries
    /\ LET then_label == new_label("ternary.then", 0)
           else_label == new_label("ternary.else", 1)
           end_label == new_label("ternary.end", 2)
           cond_reg == new_temp(0)
       IN /\ code' = code \o CondLines(BoolLit, cond_reg)
                \o <<CondBrLine(cond_reg, then_label, else_label), LabelLine(then_label)>>
          /\ stack' = Push([fn |-> "ternary", pc |-> "then", then_label |-> then_label,
                            else_label |-> else_label, end_label |-> end_label,
                            value |-> NoOperand, then_type |-> "", then_temp |-> NoVal])
    /\ temp_counter' = temp_counter + 1
    /\ label_counter' = label_counter + 3
    /\ nstmt' = nstmt + 1
    /\ last_stmt' = "ternary"
    /\ UNCHANGED <<loop_stack, scope_depth, mode, status, budget, case_log>>

\* literal.rs: an arm that is an integer literal.
generate_arm_literal(lit) ==
    /\ AwaitsArm
    /\ Top.fn = "ternary"
    /\ stack' = ReplaceTop(ArmReturned(Top, Operand(LiteralType(lit), Lit(1))))
    /\ last_stmt' = "literal"
    /\ UNCHANGED <<gen, mode, status, budget, nstmt, case_log>>

\* binary.rs: an arm that is the division of two Int32 literals.
generate_arm_division ==
    /\ AwaitsArm
    /\ Top.fn = "ternary"
    /\ LET r == generate_div("i32", Lit(1), "i32", Lit(1), new_temp(0))
       IN /\ code' = code \o r.lines
          /\ temp_counter' = temp_counter + 1 + r.temps
          /\ label_counter' = label_counter + r.labels
          /\ stack' = ReplaceTop(ArmReturned(Top, Operand(r.ty, r.val)))
    /\ last_stmt' = "binary"
    /\ UNCHANGED <<loop_stack, scope_depth, mode, status, budget, nstmt, case_log>>

\* ternary.rs generate_ternary_expression between its two branches.
ternary_then_done ==
    /\ status = "running"
    /\ stack # <<>>
    /\ Top.fn = "ternary"
    /\ Top.pc = "then_done"
    /\ LET f == Top
           then_temp == new_temp(0)
       IN /\ code' = code \o <<AddZeroLine(f.value.ty, then_temp, f.value.val),
                               BrLine(f.end_label), LabelLine(f.else_label)>>
          /\ stack' = ReplaceTop([f EXCEPT !.pc = "else", !.then_type = f.value.ty,
                                           !.then_temp = then_temp,
                                           !.value = NoOperand])
    /\ temp_counter' = temp_counter + 1
    /\ last_stmt' = "ternary"
    /\ UNCHANGED <<label_counter, loop_stack, scope_depth, mode, status, budget, nstmt,
                   case_log>>

\* ternary.rs generate_ternary_expression after the false branch: the
\* merge block with the phi, and the result returned.
ternary_else_done ==
    /\ status = "running"
    /\ Len(stack) > 1
    /\ Top.fn = "ternary"
    /\ Top.pc = "else_done"
    /\ LET f == Top
           else_temp == new_temp(0)
           result_temp == new_temp(1)
           below == stack[Len(stack) - 1]
       IN /\ code' = code \o <<AddZeroLine(f.value.ty, else_temp, f.value.val),
                               BrLine(f.end_label), LabelLine(f.end_label),
                               TypedPhiLine(f.then_type, result_temp, f.then_temp,
                                            f.then_label, else_temp, f.else_label)>>
          /\ stack' = [Pop EXCEPT ![Len(stack) - 1] =
                          ArmReturned(below, Operand(f.then_type, result_temp))]
          /\ status' = IF below.fn = "expression" THEN "done" ELSE status
    /\ temp_counter' = temp_counter + 2
    /\ last_stmt' = "ternary"
    /\ UNCHANGED <<label_counter, loop_stack, scope_depth, mode, budget, nstmt, case_log>>

InitTernary ==
    /\ code = <<>>
    /\ temp_counter = 0
    /\ label_counter = 0
    /\ loop_stack = <<>>
    /\ scope_depth = 1
    /\ stack = <<[fn |-> "expression", pc |-> "expr", value |-> NoOperand]>>
    /\ mode = "ret"
    /\ status = "running"
    /\ budget = 0
    /\ nstmt = 0
    /\ last_stmt = "none"
    /\ case_log = <<>>

NextTernary ==
    \/ generate_ternary_expression
    \/ \E lit \in {"Int32", "Int64"} : generate_arm_literal(lit)
    \/ generate_arm_division
    \/ ternary_then_done
    \/ ternary_else_done

SpecTernary == InitTernary /\ [][NextTernary]_vars

(***************************************************************************)
(* Assignment to an identifier and the lvalue of an identifier, in the     *)
(* environments of the identifier loads.                                   *)
(***************************************************************************)
\* utils.rs get_lvalue_info for Expr::Identifier: the type and the storage.
get_lvalue_info(env, name) ==
    IF name \in DOMAIN env.scope_manager
    THEN [ok |-> TRUE, ty |-> env.scope_manager[name].var_type,
          ptr |-> <<"scope", env.scope_manager[name].llvm_name>>]
    ELSE IF env.current_class # ""
            /\ StaticKey(env.current_class, name) \in DOMAIN env.static_field_map
    THEN LET field_info == env.static_field_map[StaticKey(env.current_class, name)]
         IN [ok |-> TRUE, ty |-> field_info.llvm_type, ptr |-> <<"static", field_info.name>>]
    ELSE IF name \in DOMAIN env.var_types
    THEN [ok |-> TRUE, ty |-> env.var_types[name], ptr |-> <<"legacy", name>>]
    ELSE [ok |-> FALSE, ty |-> "", ptr |-> NoVal]

\* assignment.rs generate_variable_assignment of value to name.
generate_variable_assignment(env, name, value, k) ==
    IF name \in DOMAIN env.scope_manager \/
       (~(env.current_class # ""
          /\ StaticKey(env.current_class, name) \in DOMAIN env.static_field_map)
        /\ name \in DOMAIN env.var_types)
    THEN LET scoped == name \in DOMAIN env.scope_manager
             var_type == IF scoped THEN env.scope_manager[name].var_type
                         ELSE env.var_types[name]
             llvm_name == IF scoped THEN <<"scope", env.scope_manager[name].llvm_name>>
                          ELSE <<"legacy", name>>
             r == AssignmentLines(var_type, llvm_name, value, k)
         IN [ok |-> TRUE, lines |-> r.lines, temps |-> r.temps,
             result |-> IF value.ty # var_type THEN Operand(r.ty, r.val) ELSE value]
    ELSE IF env.current_class # ""
            /\ StaticKey(env.current_class, name) \in DOMAIN env.static_field_map
    THEN LET field_info == env.static_field_map[StaticKey(env.current_class, name)]
         IN [ok |-> TRUE,
             lines |-> <<StoreLine(field_info.llvm_type, value.val,
                                   <<"static", field_info.name>>)>>,
             temps |-> 0, result |-> value]
    ELSE [ok |-> FALSE, lines |-> <<>>, temps |-> 0, result |-> NoOperand]

AwaitsName ==
    /\ status = "running"
    /\ stack # <<>>
    /\ Top.fn = "identifier"
    /\ Top.pc = "name"

\* name = 1 with an Int32 literal.
generate_assignment_to_name(name) ==
    /\ AwaitsName
    /\ name \notin Top.env.classes
    /\ LET r == generate_variable_assignment(Top.env, name, Operand("i32", Lit(1)), 0)
       IN /\ code' = code \o r.lines
          /\ temp_counter' = temp_counter + r.temps
          /\ stack' = ReplaceTop([Top EXCEPT !.pc = "stored", !.name = name,
                                             !.result = r.result])
          /\ status' = IF r.ok THEN "done" ELSE "error"
    /\ last_stmt' = "assignment"
    /\ UNCHANGED <<label_counter, loop_stack, scope_depth, mode, budget, nstmt, case_log>>

\* The lvalue of name, as name++ and name-- ask for it.
get_lvalue_info_of_name(name) ==
    /\ AwaitsName
    /\ name \notin Top.env.classes
    /\ LET r == get_lvalue_info(Top.env, name)
       IN /\ stack' = ReplaceTop([Top EXCEPT !.pc = "lvalue", !.name = name,
                                             !.result = Operand(r.ty, r.ptr)])
          /\ status' = IF r.ok THEN "done" ELSE "error"
    /\ last_stmt' = "lvalue"
    /\ UNCHANGED <<gen, mode, budget, nstmt, case_log>>

NextStorage ==
    \/ \E name \in VariableNames \cup {"A"} : generate_identifier_named(name)
    \/ \E name \in VariableNames : generate_assignment_to_name(name)
    \/ \E name \in VariableNames : get_lvalue_info_of_name(name)

SpecStorage == InitIdentifier /\ [][NextStorage]_vars

(***************************************************************************)
(* Lambdas with a block body, as expression statements of a function body  *)
(* of blocks, while loops, jumps and returns.  The bottom frame keeps      *)
(* IRGenerator.lambda_functions and current_return_type.                   *)
(***************************************************************************)
MaxClosureStmts == 4

ReturnTypes == {"void", "i32", "i64"}

\* return 1; in a function whose declared return type is
\* current_return_type.
generate_return_of_literal ==
    /\ Visit("return")
    /\ LET r == ReturnLines(Operand("i32", Lit(1)), stack[1].current_return_type, 0)
       IN /\ code' = code \o r.lines
          /\ temp_counter' = temp_counter + r.temps
    /\ mode' = "ret"
    /\ UNCHANGED <<label_counter, loop_stack, scope_depth, stack, status, case_log>>

\* lambda.rs generate_lambda, for a lambda without parameters whose body is
\* a block, up to the statements of the block.
generate_lambda_block ==
    /\ VisitNested("lambda")
    /\ code' = <<DefineLine("i64", temp_counter, 0), LabelLine(EntryLabel)>>
    /\ temp_counter' = 0
    /\ stack' = Push([fn |-> "lambda", pc |-> "stmts", lambda_name |-> temp_counter,
                      saved_code |-> code, saved_temp_counter |-> temp_counter + 1])
    /\ scope_depth' = scope_depth + 1
    /\ mode' = "ret"
    /\ UNCHANGED <<label_counter, loop_stack, status, case_log>>

lambda_next_statement ==
    /\ Resume("lambda", "stmts")
    /\ nstmt < budget
    /\ mode' = "call"
    /\ UNCHANGED <<gen, stack, status, budget, nstmt, last_stmt, case_log>>

\* lambda.rs generate_lambda after the statements of the block: ret i64 0,
\* exit_scope, the closing brace, the buffer and the counter restored, the
\* function pushed on lambda_functions, and the function pointer.
finish_lambda_block ==
    /\ Resume("lambda", "stmts")
    /\ LET f == Top
           lambda_code == code \o <<RetLine("i64", Lit(0)), CloseLine>>
           restored == RestoredTempCounter(f.saved_temp_counter, temp_counter)
       IN /\ code' = Append(f.saved_code,
                            Conv("bitcast", "void (i64)*", "i8*", Tmp(restored),
                                 <<"lambda", f.lambda_name>>))
          /\ temp_counter' = restored + 1
          /\ stack' = [Pop EXCEPT ![1].lambda_functions = Append(@, lambda_code)]
    /\ scope_depth' = scope_depth - 1
    /\ UNCHANGED <<label_counter, loop_stack, mode, status, budget, nstmt, last_stmt,
                   case_log>>

InitClosure ==
    /\ code = <<>>
    /\ temp_counter = 0
    /\ label_counter = 0
    /\ loop_stack = <<>>
    /\ scope_depth = 1
    /\ \E current_return_type \in ReturnTypes :
          stack = <<[fn |-> "body", pc |-> "stmts", lambda_functions |-> <<>>,
                     current_return_type |-> current_return_type]>>
    /\ mode = "ret"
    /\ status = "running"
    /\ budget = MaxClosureStmts
    /\ nstmt = 0
    /\ last_stmt = "none"
    /\ case_log = <<>>

NextClosure ==
    \/ generate_expression_statement("assign")
    \/ generate_return_statement
    \/ generate_return_of_literal
    \/ generate_break_statement
    \/ generate_continue_statement
    \/ generate_block
    \/ block_next_statement
    \/ block_end
    \/ body_next_statement
    \/ body_end
    \/ generate_while_statement
    \/ while_body_done
    \/ \E has_else \in BOOLEAN : generate_if_statement(has_else)
    \/ if_then_done
    \/ if_else_done
    \/ generate_switch_statement(1, TRUE)
    \/ switch_case_end
    \/ switch_case_statement
    \/ \E more \in BOOLEAN : switch_case_break(more)
    \/ switch_default_end
    \/ switch_default_statement
    \/ switch_default_break
    \/ generate_lambda_block
    \/ lambda_next_statement
    \/ finish_lambda_block

SpecClosure == InitClosure /\ [][NextClosure]_vars

(***************************************************************************)
(* The meaning of the emitted lines: a machine with one integer per        *)
(* temporary and a byte-addressed memory of the cells stored so far.       *)
(* calloc and alloca hand out fresh blocks, HeapGap bytes apart; a load or *)
(* store outside every block is undefined behaviour, recorded in ub.  The  *)
(* machine keeps the label of the block it is in and of the block it came  *)
(* from, which is what a phi selects on.                                   *)
(***************************************************************************)
HeapGap == 2 * HeaderBytes

TypeBytes(ty) ==
    CASE ty \in {"i1", "i8"} -> 1
      [] ty \in {"i32", "float"} -> 4
      [] OTHER -> 8

Pow2(b) == IF b = 1 THEN 2 ELSE 256

\* The value of the low `bits` bits of v, read as a signed integer.  The
\* values of the explored programs lie in the i32 range, so a conversion to
\* 32 or 64 bits keeps them.
Wrap(v, bits) ==
    IF bits >= 32 THEN v
    ELSE LET m == v % Pow2(bits)
         IN IF 2 * m >= Pow2(bits) THEN m - Pow2(bits) ELSE m

Machine(c) ==
    [pc |-> 1, regs |-> [t \in 0..Len(c) |-> 0], cells |-> <<>>, blocks |-> <<>>,
     next |-> HeapGap, ub |-> FALSE, block |-> NoLabel, prev |-> NoLabel]

ValueOf(m, v) == IF v[1] = "tmp" THEN m.regs[v[2]] ELSE v[2]

InBlock(m, addr, bytes) ==
    \E b \in 1..Len(m.blocks) :
        m.blocks[b].base <= addr /\ addr + bytes <= m.blocks[b].base + m.blocks[b].bytes

CellsAt(m, addr, bytes) ==
    {i \in 1..Len(m.cells) : m.cells[i].addr = addr /\ m.cells[i].bytes = bytes}

\* The value a load reads: the last store to the cell, or the zero calloc
\* left there.
Loaded(m, addr, bytes) ==
    IF CellsAt(m, addr, bytes) = {} THEN 0
    ELSE m.cells[CHOOSE i \in CellsAt(m, addr, bytes) :
                    \A k \in CellsAt(m, addr, bytes) : k <= i].val

LabelIndex(c, l) == CHOOSE i \in 1..Len(c) : c[i] = LabelLine(l)

Allocate(m, dst, bytes) ==
    [m EXCEPT !.regs[dst[2]] = m.next,
              !.blocks = Append(@, [base |-> m.next, bytes |-> bytes]),
              !.next = m.next + bytes + HeapGap,
              !.pc = @ + 1]

SetReg(m, dst, v) == [m EXCEPT !.regs[dst[2]] = v, !.pc = @ + 1]

Execute(c, m) ==
    LET line == c[m.pc]
        x == ValueOf(m, line.x)
        y == ValueOf(m, line.y)
    IN CASE line.op = "label" ->
                [m EXCEPT !.pc = @ + 1, !.prev = m.block, !.block = line.l1]
         [] line.op = "br" -> [m EXCEPT !.pc = LabelIndex(c, line.l1)]
         [] line.op = "condbr" ->
                [m EXCEPT !.pc = LabelIndex(c, IF x = 1 THEN line.l1 ELSE line.l2)]
         [] line.op = "sext" -> SetReg(m, line.dst, Wrap(x, Bits(ConvFrom(line))))
         [] line.op = "trunc" -> SetReg(m, line.dst, Wrap(x, Bits(line.ty)))
         [] line.op = "bitcast" -> SetReg(m, line.dst, x)
         [] line.op = "mul" -> SetReg(m, line.dst, x * y)
         [] line.op = "add" -> SetReg(m, line.dst, x + y)
         [] line.op = "icmp slt" -> SetReg(m, line.dst, IF x < y THEN 1 ELSE 0)
         [] line.op = "icmp eq" -> SetReg(m, line.dst, IF x = y THEN 1 ELSE 0)
         [] line.op = "phi" ->
                SetReg(m, line.dst, IF m.prev = line.l1 THEN x ELSE y)
         [] line.op = "getelementptr" -> SetReg(m, line.dst, x + y * TypeBytes(line.ty))
         [] line.op = "call calloc" -> Allocate(m, line.dst, x)
         [] line.op = "alloca" -> Allocate(m, line.dst, TypeBytes(line.ty))
         [] line.op = "store" ->
                [m EXCEPT !.cells = Append(@, [addr |-> y, bytes |-> TypeBytes(line.ty),
                                               val |-> x]),
                          !.ub = @ \/ ~InBlock(m, y, TypeBytes(line.ty)),
                          !.pc = @ + 1]
         [] line.op = "load" ->
                [m EXCEPT !.regs[line.dst[2]] = Loaded(m, x, TypeBytes(line.ty)),
                          !.ub = @ \/ ~InBlock(m, x, TypeBytes(line.ty)),
                          !.pc = @ + 1]
         [] OTHER -> [m EXCEPT !.pc = @ + 1]

RECURSIVE Run(_, _, _)
Run(c, m, fuel) ==
    IF m.pc > Len(c) \/ fuel = 0 THEN m ELSE Run(c, Execute(c, m), fuel - 1)

\* The machine after the emitted lines have run from the first to the end.
Executed(c) == Run(c, Machine(c), (Len(c) + 1) * (MaxLen + 2) * (MaxLen + 2))

(***************************************************************************)
(* Facts about the emitted code and the generators in progress.            *)
(***************************************************************************)
Max(S) == CHOOSE x \in S : \A y \in S : y <= x

LoopKinds == {"while", "for", "dowhile"}
LoopFrames == {k \in 1..Len(stack) : stack[k].fn \in LoopKinds}
InnermostLoop == stack[Max(LoopFrames)]

\* A break or continue statement is handed to generate_statement in this step.
JumpVisited(k) == mode = "call" /\ nstmt' = nstmt + 1 /\ last_stmt' = k

\* The line ends a terminator instruction (a switch ends with its "]").
EndsTerminator(line) ==
    line.op \in {"ret", "br", "condbr", "unreachable", "switchclose"}

\* merge is the merge label of an if without else: the conditional branch of
\* the if names it as its false target.
MergeOfIfWithoutElse(merge) ==
    \E j \in 1..Len(code) : code[j].op = "condbr" /\ code[j].l2 = merge

IfMergeLabelAt(i) ==
    /\ code[i].op = "label"
    /\ code[i].l1[1] = "ifmerge"
    /\ MergeOfIfWithoutElse(code[i].l1)

\* C1: the merge block of an if without else never starts with unreachable,
\* whatever the then-branch ended with; code generated after the if follows
\* the merge label.
C1_IfWithoutElseMergeReachable ==
    \A i \in 1..Len(code) :
        IfMergeLabelAt(i) => ~(i < Len(code) /\ code[i + 1].op = "unreachable")

\* An if without else whose then-branch returned, followed by more code.
C1_Witness ==
    \E i \in 2..Len(code) :
        /\ IfMergeLabelAt(i)
        /\ code[i - 1].op = "ret"
        /\ i < Len(code)
        /\ status = "done"

\* C2: no basic block holds two terminators: a terminator is always the last
\* instruction before the next label (or the end of the code).
C2_OneTerminatorPerBlock ==
    \A i \in 1..Len(code) :
        (EndsTerminator(code[i]) /\ i < Len(code)) => code[i + 1].op = "label"

\* The block a case falls through to, in declaration order.
SuccessorOfCase(r) ==
    IF r.index < r.ncases THEN r.next_label
    ELSE IF r.has_default THEN r.default_label
    ELSE r.end_label

EndsWithBranchToSuccessor(r) ==
    /\ code[r.last] = BrLine(SuccessorOfCase(r))
    /\ r.last < Len(code)
    /\ code[r.last + 1] = LabelLine(SuccessorOfCase(r))

\* C3 as stated: a case whose body is empty or does not end in a top-level
\* break ends with a branch to the next case's block (the default block or
\* the end block for the last case).
C3_FallthroughUnlessEndsInBreak ==
    \A k \in 1..Len(case_log) :
        (case_log[k].empty \/ ~case_log[k].ends_in_break)
            => EndsWithBranchToSuccessor(case_log[k])

\* C3 amended: a case whose body contains no top-level break ends with a
\* branch to the next case's block (the default block or the end block for
\* the last case), and that block starts right after the branch.
C3_FallthroughUnlessBreak ==
    \A k \in 1..Len(case_log) :
        (case_log[k].empty \/ ~case_log[k].has_break)
            => EndsWithBranchToSuccessor(case_log[k])

\* An empty case that is not the last one, and a last case with statements
\* and no break in front of a default block.
C3_Witness ==
    \E k, m \in 1..Len(case_log) :
        /\ case_log[k].empty /\ case_log[k].index < case_log[k].ncases
        /\ ~case_log[m].empty /\ ~case_log[m].has_break
        /\ case_log[m].index = case_log[m].ncases /\ case_log[m].has_default

\* The break belongs to a switch: the innermost generator in progress that
\* is not an if is a switch.
SwitchOwningBreak ==
    {k \in 1..Len(stack) :
        stack[k].fn = "switch" /\ \A m \in (k + 1)..Len(stack) : stack[m].fn = "if"}

BreakVisited == nstmt' > nstmt /\ last_stmt' = "break"

\* C4: a break in a switch body, direct or nested in an if, emits a branch
\* to the end label of that switch and is no error; after a direct break the
\* generator leaves the body of that case.
C4_BreakInSwitchTargetsSwitchEnd ==
    [][(BreakVisited /\ SwitchOwningBreak # {}) =>
          LET f == stack[Max(SwitchOwningBreak)]
          IN /\ status' = "running"
             /\ Len(code') > Len(code)
             /\ code'[Len(code) + 1] = BrLine(f.end_label)
             /\ (mode = "ret" =>
                    \/ Len(stack') < Len(stack)
                    \/ stack'[Len(stack)].pc # f.pc
                    \/ stack'[Len(stack)].i # f.i)]_vars

\* C5: break and continue outside every loop are errors that leave the
\* generation state as it was.
C5_JumpOutsideLoopIsError ==
    [][((JumpVisited("break") \/ JumpVisited("continue")) /\ loop_stack = <<>>) =>
          /\ status' = "error"
          /\ code' = code
          /\ temp_counter' = temp_counter
          /\ label_counter' = label_counter
          /\ loop_stack' = loop_stack
          /\ scope_depth' = scope_depth]_vars

\* A continue outside every loop was rejected after code had been emitted.
C5_Witness ==
    /\ status = "error"
    /\ last_stmt = "continue"
    /\ loop_stack = <<>>
    /\ code # <<>>

ContinuationLabel(f) == IF f.fn = "for" THEN f.update_label ELSE f.cond_label

\* The update block of a for loop ends with the branch back to the condition.
UpdateRunsBeforeCondition ==
    \A i \in 1..Len(code) :
        (code[i].op = "label" /\ code[i].l1[1] = "for.update" /\ i < Len(code)) =>
            \E j \in (i + 1)..Len(code) :
                /\ code[j].op = "br"
                /\ code[j].l1 = <<"for.cond", code[i].l1[2] - 2>>
                /\ \A m \in (i + 1)..(j - 1) : code[m].op = "store"

\* C6: break branches to the end label of the innermost loop being generated,
\* continue to its continuation label (condition of while and do-while,
\* update of for); after an inner loop is finished the outer loop is the
\* target again.
C6_JumpTargetsInnermostLoop ==
    /\ [][(JumpVisited("break") /\ LoopFrames # {}) =>
             /\ status' = "running"
             /\ code' = Append(code, BrLine(InnermostLoop.end_label))]_vars
    /\ [][(JumpVisited("continue") /\ LoopFrames # {}) =>
             /\ status' = "running"
             /\ code' = Append(code, BrLine(ContinuationLabel(InnermostLoop)))]_vars
    /\ []UpdateRunsBeforeCondition

\* A continue that follows a finished inner loop in the body of an outer
\* for loop branched to the update label of the outer loop.
C6_Witness ==
    /\ last_stmt = "continue"
    /\ mode = "ret"
    /\ LoopFrames # {}
    /\ InnermostLoop.fn = "for"
    /\ Len(loop_stack) = 1
    /\ code[Len(code)] = BrLine(InnermostLoop.update_label)
    /\ \E i \in 1..Len(code) :
          code[i].op = "label" /\ code[i].l1[1] \in {"while.end", "for.end", "dowhile.end"}

\* The binary expression whose generation has finished, and the lines it
\* emitted after its operands.
BinaryDone ==
    /\ status = "done"
    /\ stack # <<>>
    /\ Top.fn = "binary"
    /\ Top.pc = "done"

\* Line i is a division or remainder and lines i-7 .. i-1 are the zero-check
\* of its divisor: the comparison with zero, the branch to the error block,
\* the error block (message, exit(1), unreachable) and the label of the
\* continue block, which line i opens.
GuardedAt(i) ==
    /\ i > 7
    /\ code[i - 7].op = "icmp eq"
    /\ code[i - 7].ty = code[i].ty
    /\ code[i - 7].x = code[i].y
    /\ code[i - 7].y = Lit(0)
    /\ code[i - 6].op = "condbr"
    /\ code[i - 6].x = code[i - 7].dst
    /\ code[i - 5] = LabelLine(code[i - 6].l1)
    /\ code[i - 4].op = "call printf"
    /\ code[i - 3] = ExitLine(1)
    /\ code[i - 2] = UnreachableLine
    /\ code[i - 1] = LabelLine(code[i - 6].l2)
    /\ code[i - 6].l1 # code[i - 6].l2

\* C7 as stated: every division and remainder instruction, integer or
\* floating, is preceded by the zero-check of its divisor and stands in the
\* continue block.
C7_EveryDivisionIsGuarded ==
    \A i \in 1..Len(code) :
        code[i].op \in {"sdiv", "srem", "fdiv", "frem"} => GuardedAt(i)

\* C7 amended: every integer division and remainder instruction (sdiv,
\* srem) is preceded by the zero-check of its promoted divisor and stands in
\* the continue block.
C7_IntegerDivisionIsGuarded ==
    \A i \in 1..Len(code) : code[i].op \in {"sdiv", "srem"} => GuardedAt(i)

\* An integer division and an integer remainder with operands of different
\* widths have been generated.
C7_Witness ==
    /\ BinaryDone
    /\ Top.op \in {"Div", "Mod"}
    /\ Top.left.ty = "i32"
    /\ Top.right.ty = "i64"
    /\ code[Len(code)].op \in {"sdiv", "srem"}

\* C8: for integer operands of different widths the result type of the
\* binary operator is the wider operand type, each conversion the operator
\* emits is a sign-extension to a wider type, and none narrows.
C8_PromotesToWiderType ==
    (BinaryDone /\ Top.left.ty \in IntTypes /\ Top.right.ty \in IntTypes
        /\ Bits(Top.left.ty) # Bits(Top.right.ty))
    => /\ Top.result.ty = (IF Bits(Top.left.ty) > Bits(Top.right.ty)
                           THEN Top.left.ty ELSE Top.right.ty)
       /\ \A i \in (Top.start + 1)..Len(code) :
            code[i].op \in {"sext", "trunc", "zext"} =>
                /\ code[i].op = "sext"
                /\ Bits(ConvFrom(code[i])) < Bits(code[i].ty)
                /\ code[i].ty = Top.result.ty

\* generate_member_access holds an array value: the operand its object
\* expression returned, with the element count the program gave it.
HoldsArrayValue ==
    /\ stack # <<>>
    /\ Top.fn = "member"
    /\ Top.pc \in {"length", "done"}

\* ptr is HeaderBytes past the start of a heap block whose first 4 bytes
\* were written with count.
HasHeader(m, ptr, count) ==
    /\ \E b \in 1..Len(m.blocks) :
          /\ m.blocks[b].base = ptr - HeaderBytes
          /\ m.blocks[b].bytes >= HeaderBytes
    /\ CellsAt(m, ptr - HeaderBytes, 4) # {}
    /\ Loaded(m, ptr - HeaderBytes, 4) = count

\* C9: after new T[n] and .length on its value, the run of the emitted
\* lines has stored n at offset 0 of the allocation, the array value is the
\* address at offset 8, and .length is an i32 loaded from the address 8
\* bytes before the array value, with value n.
C9_LengthAfterCreationIsN ==
    (HoldsArrayValue /\ Top.pc = "done" /\ Top.origin = "creation" /\ Len(Top.dims) = 1)
    => LET m == Executed(code)
           ptr == ValueOf(m, Top.obj.val)
           n == Top.dims[1]
       IN /\ ~m.ub
          /\ HasHeader(m, ptr, n)
          /\ code[Len(code)].op = "load"
          /\ code[Len(code)].ty = "i32"
          /\ ValueOf(m, code[Len(code)].x) = ptr - 8
          /\ Top.result = Operand("i32", code[Len(code)].dst)
          /\ ValueOf(m, Top.result.val) = n

\* new T[n] with n > 0 given as an i64 literal, followed by .length.
C9_Witness ==
    /\ HoldsArrayValue
    /\ Top.pc = "done"
    /\ Top.origin = "creation"
    /\ Top.dims = <<MaxLen>>
    /\ code[1].op = "trunc"

\* C10: every array value (of a creation with one or more dimensions, of an
\* element of an array of arrays, of an initializer, of packed variadic
\* arguments) points 8 bytes past the start of a heap block that holds the
\* element count in its first 4 bytes, and .length on it yields the count.
C10_EveryArrayValueHasHeader ==
    HoldsArrayValue
    => LET m == Executed(code)
           ptr == ValueOf(m, Top.obj.val)
       IN /\ HasHeader(m, ptr, Top.dims[1])
          /\ Top.pc = "done" => (~m.ub /\ ValueOf(m, Top.result.val) = Top.dims[1])

\* The array of arrays that generate_array_creation returned for
\* new T[n][m], before and after the assignment and the read.
HoldsMatrixValue ==
    /\ stack # <<>>
    /\ Top.fn = "member"
    /\ Top.pc \in {"length", "written", "read"}
    /\ Top.origin \in {"creation", "assignment"}
    /\ Len(Top.dims) = 2

\* The addresses of the 8-byte stores into the n pointers at ptr, in the
\* order the run made them.
StoresInto(m, ptr, n) ==
    LET InArray(c) == c.bytes = 8 /\ ptr <= c.addr /\ c.addr < ptr + 8 * n
        hits == SelectSeq(m.cells, InArray)
    IN [s \in 1..Len(hits) |-> hits[s].addr]

BlockAt(m, base) == {b \in 1..Len(m.blocks) : m.blocks[b].base = base}

\* C11: the run of the lines emitted for new T[n][m] ends, its loop body
\* has stored one sub-array pointer per outer index 0..n-1 in that order,
\* each a block of its own with room for m elements and the count m in its
\* header; after a[i][j] = v, a[i2][j2] is v when (i2, j2) = (i, j) and
\* the zero of a fresh cell otherwise.
C11_OneFreshSubArrayPerIndex ==
    HoldsMatrixValue
    => LET m == Executed(code)
           ptr == ValueOf(m, Top.obj.val)
           n == Top.dims[1]
           cols == Top.dims[2]
           elem_bytes == TypeBytes(Deref(Deref(Top.obj.ty)))
           Sub(i) == Loaded(m, ptr + 8 * i, 8)
       IN /\ m.pc > Len(code)
          /\ ~m.ub
          /\ StoresInto(m, ptr, n) = [s \in 1..n |-> ptr + 8 * (s - 1)]
          /\ Len(m.blocks) = n + 2
          /\ \A i \in 0..(n - 1) :
                /\ HasHeader(m, Sub(i), cols)
                /\ \A b \in BlockAt(m, Sub(i) - HeaderBytes) :
                      m.blocks[b].bytes = HeaderBytes + cols * elem_bytes
                /\ \A i2 \in 0..(n - 1) : i2 # i => Sub(i2) # Sub(i)
          /\ Top.pc = "read" =>
                ValueOf(m, Top.result.val) = (IF Top.from = Top.at THEN Top.value ELSE 0)

\* A cell of the last row of a matrix with several rows and columns has
\* been written and read back.
C11_Witness ==
    /\ HoldsMatrixValue
    /\ Top.pc = "read"
    /\ Top.dims = <<MaxLen, MaxLen>>
    /\ Top.at = <<MaxLen - 1, 1>>
    /\ Top.from = Top.at

\* generate_call_expression has emitted the call.
CallEmitted ==
    /\ stack # <<>>
    /\ Top.fn = "call"
    /\ Top.pc \in {"called", "again"}

ResolvedVariadic == Top.resolved.index # 0 /\ IsVarargs(Top.resolved.params)

\* The emitted call, the last line of the code.
EmittedCall == code[Len(code)]

\* ptr is the start of a block of 4 bytes per element that holds the
\* values of elements, 32-bit integers, in order.
HoldsInts(m, ptr, elements) ==
    /\ \E b \in 1..Len(m.blocks) :
          m.blocks[b].base = ptr /\ m.blocks[b].bytes = 4 * Len(elements)
    /\ \A i \in 1..Len(elements) :
          Loaded(m, ptr + 4 * (i - 1), 4) = ValueOf(m, elements[i].val)

\* C12: a call that resolves to a variadic overload with k fixed parameters
\* and n >= k arguments is emitted with k + 1 arguments: the first k
\* arguments unchanged, then a pointer to a new array holding arguments
\* k+1..n as 32-bit integers, whatever the name of the method.
C12_VariadicCallPassesFixedThenArray ==
    (CallEmitted /\ ResolvedVariadic
        /\ Len(Top.arg_results) >= Len(Top.resolved.params) - 1)
    => LET k == Len(Top.resolved.params) - 1
           n == Len(Top.arg_results)
           args == EmittedCall.args
           m == Executed(code)
       IN /\ Len(args) = k + 1
          /\ SubSeq(args, 1, k) = SubSeq(Top.arg_results, 1, k)
          /\ args[k + 1].ty = "i8*"
          /\ HoldsInts(m, ValueOf(m, args[k + 1].val), SubSeq(Top.arg_results, k + 1, n))

\* C13: a call that resolves to an overload that is not variadic passes
\* the arguments as they were generated, whatever other overloads the
\* method has.
C13_PacksOnlyForVariadicTarget ==
    (CallEmitted /\ Top.resolved.index # 0 /\ ~IsVarargs(Top.resolved.params))
    => EmittedCall.args = Top.arg_results

ParamSignature(params, has_varargs_array) ==
    Join([idx \in 1..Len(params) |->
             param_type_to_signature(params[idx].param_type,
                 has_varargs_array /\ idx = Len(params) /\ params[idx].is_varargs)], "_")

\* The overload C15 describes for one class: one whose parameter signature
\* equals the argument signature, else the first that matches by arity.
ClaimedOverload(methods, arg_types, arg_count, has_varargs_array) ==
    LET exact == {i \in 1..Len(methods) :
                     ParamSignature(methods[i], has_varargs_array) = Join(arg_types, "_")}
        arity == {i \in 1..Len(methods) : ArityMatches(methods[i], arg_count)}
    IN IF exact # {} THEN First(exact)
       ELSE IF arity # {} THEN First(arity)
       ELSE 0

RECURSIVE ClaimedResolution(_, _, _, _, _)
ClaimedResolution(registry, current_class_name, method_name, processed_args, has_varargs_array) ==
    LET methods == MethodsNamed(registry[current_class_name], method_name)
        chosen == ClaimedOverload(methods, ArgTypes(processed_args, has_varargs_array),
                                  Len(processed_args), has_varargs_array)
    IN IF chosen # 0
       THEN [class |-> current_class_name, index |-> chosen, params |-> methods[chosen]]
       ELSE IF registry[current_class_name].parent # ""
       THEN ClaimedResolution(registry, registry[current_class_name].parent, method_name,
                              processed_args, has_varargs_array)
       ELSE [class |-> "", index |-> 0, params |-> <<>>]

HasVarargsArray == Top.processed_args # Top.arg_results

\* C15: the symbol is that of the overload found by searching the receiver
\* class, then its ancestors; in each class an overload whose parameter
\* signature equals the argument signature wins, else the first by arity;
\* the symbol is built from the class of the overload and its declared
\* parameter types.
C15_ExactThenArityThenParent ==
    CallEmitted
    => LET r == ClaimedResolution(Top.registry, Top.class_name, Top.method_name,
                                  Top.processed_args, HasVarargsArray)
       IN /\ Top.resolved = r
          /\ r.index # 0 =>
                Top.fn_name = build_function_name_from_method(r.class, Top.method_name,
                                  r.params, HasVarargsArray)

ArgumentsEncoded ==
    /\ stack # <<>>
    /\ Top.fn = "signature"
    /\ Top.pc = "encoded"

\* C16: the code of an argument generated for a source type is the code of
\* a parameter declared with that type, and arguments of different source
\* types have different codes.
C16_ArgumentCodeIsParameterCode ==
    ArgumentsEncoded
    => /\ \A i \in 1..2 :
             Top.arg_types[i] = param_type_to_signature(Top.types[i], FALSE)
       /\ Top.types[1] # Top.types[2] => Top.arg_types[1] # Top.arg_types[2]

InstanceOfTested ==
    /\ stack # <<>>
    /\ Top.fn = "instanceof"
    /\ Top.pc = "tested"

\* The value of the instanceof expression when the emitted lines have run.
InstanceOfValue == ValueOf(Executed(code), Top.result.val)

\* Class c lists interface i itself, or a class on its chain of parents does.
RECURSIVE Implements(_, _, _, _)
Implements(registry, c, i, fuel) ==
    /\ c \in DOMAIN registry
    /\ fuel > 0
    /\ \/ i \in registry[c].interfaces
       \/ Implements(registry, registry[c].parent, i, fuel - 1)

\* C17: against an interface, the comparison chain reaches the true label
\* exactly when the tag is that of a class listing the interface itself or
\* through an ancestor, and the false label otherwise.
C17_InterfaceCheckMatchesImplementers ==
    (InstanceOfTested /\ Top.target \in InterfaceNames /\ Top.expr.kind = "new")
    => /\ ~Executed(code).ub
       /\ InstanceOfValue
            = (IF Implements(Top.registry, Top.expr.class, Top.target, 4) THEN 1 ELSE 0)

\* An object of a class that implements I only through its parent is tested
\* against I, and the test is true.
C17_Witness ==
    /\ InstanceOfTested
    /\ Top.target = "I"
    /\ Top.expr = [kind |-> "new", class |-> "C"]
    /\ Top.registry["C"] = [parent |-> "B", interfaces |-> {}]
    /\ Top.registry["B"] = [parent |-> "A", interfaces |-> {}]
    /\ Top.registry["A"].interfaces = {"I"}
    /\ InstanceOfValue = 1

\* C18: an instanceof of null is false for every target, and the emitted
\* code does not load a tag through the null operand.
C18_NullIsFalseWithoutTagLoad ==
    (InstanceOfTested /\ Top.expr.kind = "null")
    => /\ ~Executed(code).ub
       /\ InstanceOfValue = 0

\* No temporary is the destination of two lines of c.
SingleAssignment(c) ==
    \A i, j \in 1..Len(c) :
        (c[i].dst[1] = "tmp" /\ c[i].dst = c[j].dst) => i = j

InFunction == stack # <<>> /\ stack[1].fn = "function"

\* C19: in the function being generated and in every finished lambda
\* function, each temporary is the destination of at most one emitted
\* instruction; this holds in the enclosing function after a lambda has
\* been generated in it.
C19_TemporariesAssignedOnce ==
    InFunction
    => /\ SingleAssignment(code)
       /\ \A n \in 1..Len(stack[1].lambda_functions) :
             SingleAssignment(stack[1].lambda_functions[n])

\* The enclosing function has temporaries assigned before and after a
\* lambda whose own function assigns temporaries too.
C19_Witness ==
    /\ InFunction
    /\ Len(stack) = 1
    /\ Len(stack[1].lambda_functions) = 1
    /\ \E i \in 1..Len(stack[1].lambda_functions[1]) :
          stack[1].lambda_functions[1][i].op = "sdiv"
    /\ \E i, j, k \in 1..Len(code) :
          /\ i < j /\ j < k
          /\ code[i].dst[1] = "tmp"
          /\ code[j].op = "bitcast"
          /\ code[k].dst[1] = "tmp"

IdentifierLoaded ==
    /\ stack # <<>>
    /\ Top.fn = "identifier"
    /\ Top.pc = "loaded"

\* The storage the name of the frame resolves to when the scope manager is
\* asked first, the static fields of the current class second and the flat
\* map last.
ScopeFirstStorage ==
    LET env == Top.env
        name == Top.name
    IN IF name \in DOMAIN env.scope_manager
       THEN <<"scope", env.scope_manager[name].llvm_name>>
       ELSE IF env.current_class # ""
               /\ StaticKey(env.current_class, name) \in DOMAIN env.static_field_map
       THEN <<"static", env.static_field_map[StaticKey(env.current_class, name)].name>>
       ELSE <<"legacy", name>>

\* C20: the load of an identifier reads the storage found by asking the
\* scope manager first, then the static-field table, then the flat map; a
\* local variable that has the name of a static field of the current class
\* is read from the local variable's storage.
C20_ScopeThenStaticThenLegacy ==
    (IdentifierLoaded /\ Top.name \notin Top.env.classes)
    => /\ Len(code) = 1
       /\ code[1].op = "load"
       /\ code[1].x = ScopeFirstStorage

\* The name of the frame is in none of the tables.
Unresolved ==
    /\ Top.name \notin Top.env.classes
    /\ Top.name \notin DOMAIN Top.env.scope_manager
    /\ ~(/\ Top.env.current_class # ""
         /\ StaticKey(Top.env.current_class, Top.name) \in DOMAIN Top.env.static_field_map)
    /\ Top.name \notin DOMAIN Top.env.var_types

\* C21: the load of an identifier found in neither the scope manager, nor
\* the static-field table, nor the flat map is an error and emits no load.
C21_UnresolvedIdentifierIsError ==
    (IdentifierLoaded /\ Unresolved) => (status = "error" /\ code = <<>>)

ValueReturned ==
    /\ stack # <<>>
    /\ Top.fn = "coerce"
    /\ Top.pc = "returned"
    /\ Top.target_type # "void"

Conversions == {"sext", "trunc", "fptrunc", "fpext", "sitofp"}

\* Lines a and b convert between the same two types in the same way.
SameConversion(a, b) == a.op = b.op /\ a.ty = b.ty /\ ConvFrom(a) = ConvFrom(b)

\* The lines the assignment of the returned value to a variable of the
\* declared return type emits.
AssignmentOfReturned == AssignmentLines(Top.target_type, <<"var", 1>>, Top.value, 1).lines

\* C22: where the assignment of a value to a variable of the declared
\* return type emits a conversion, the return of that value emits the same
\* conversion, and the ret line carries the declared return type.
C22_ReturnCoercesLikeAssignment ==
    ValueReturned
    => /\ AssignmentOfReturned[1].op \in Conversions
            => (Len(code) = 3 /\ SameConversion(code[2], AssignmentOfReturned[1]))
       /\ code[Len(code)].op = "ret"
       /\ code[Len(code)].ty = Top.target_type

\* Line i is the merge label of an if with an else branch whose else label
\* is line e: the generator takes the two labels one after the other.
IfElseAt(e, i) ==
    /\ code[i].op = "label"
    /\ code[i].l1[1] = "ifmerge"
    /\ code[e] = LabelLine(<<"else", code[i].l1[2] - 1>>)

\* C24: in an if with an else branch, each branch ends in a terminator
\* instruction of its own or else in the one branch to the merge label that
\* the generator appends, and the merge block starts with unreachable
\* exactly when neither branch needed the appended branch.
C24_UnreachableIffBothBranchesTerminate ==
    \A e, i \in 2..Len(code) :
        IfElseAt(e, i)
        => /\ EndsTerminator(code[e - 1])
           /\ EndsTerminator(code[i - 1])
           /\ (i < Len(code) /\ code[i + 1].op = "unreachable")
                <=> (code[e - 1] # BrLine(code[i].l1) /\ code[i - 1] # BrLine(code[i].l1))

\* C25: a branch of an if whose last emitted line is a block label is not
\* taken for terminated: the line before the else label and before the
\* merge label of an if is never a label.
C25_LabelIsNotATerminator ==
    \A i \in 2..Len(code) :
        (code[i].op = "label" /\ code[i].l1[1] \in {"else", "ifmerge"})
        => code[i - 1].op # "label"

\* The label of the basic block line i stands in.
BlockOf(i) ==
    LET labels == {j \in 1..i : code[j].op = "label"}
    IN IF labels = {} THEN NoLabel ELSE code[Max(labels)].l1

\* Line i assigns v and the next line branches to the block of label l.
BranchesWith(i, v, l) ==
    /\ i < Len(code)
    /\ code[i].dst = v
    /\ code[i + 1] = BrLine(l)

\* C28: each incoming label of the phi of a ternary names the block that
\* holds the branch to the end block for that arm.
C28_PhiNamesBranchingBlocks ==
    \A p \in 2..Len(code) :
        code[p].op = "phi"
        => \A i \in 1..p :
              /\ BranchesWith(i, code[p].x, code[p - 1].l1) => BlockOf(i) = code[p].l1
              /\ BranchesWith(i, code[p].y, code[p - 1].l1) => BlockOf(i) = code[p].l2

\* C27: the return type of the emitted call is the declared return type of
\* the overload whose symbol is called, also when that overload is found
\* in a parent class.
C27_CallTypeIsReturnTypeOfCallee ==
    (CallEmitted /\ Top.resolved.index # 0)
    => EmittedCall.ty = MethodReturnType(Top.resolved.class, Top.resolved.index)

NameResolved ==
    /\ stack # <<>>
    /\ Top.fn = "identifier"
    /\ Top.pc \in {"loaded", "stored", "lvalue"}
    /\ Top.name \notin Top.env.classes
    /\ get_lvalue_info(Top.env, Top.name).ok

\* The storage the load, the assignment and the lvalue of the name of the
\* frame use.
LoadStorage == ResolveIdentifier(Top.env, Top.name, 0).lines[1].x
StoreStorage ==
    LET lines == generate_variable_assignment(Top.env, Top.name, Operand("i32", Lit(1)),
                                              0).lines
    IN lines[Len(lines)].y
LvalueStorage == get_lvalue_info(Top.env, Top.name).ptr

\* C26: the load, the assignment and the lvalue of one name in one
\* environment use the same storage.
C26_LoadStoreLvalueAgree ==
    NameResolved => (LoadStorage = StoreStorage /\ StoreStorage = LvalueStorage)

\* The frames of the lambdas being generated, and the innermost of them.
LambdaFrames == {i \in 1..Len(stack) : stack[i].fn = "lambda"}
InnermostLambda == CHOOSE i \in LambdaFrames : \A j \in LambdaFrames : j <= i

\* The scope depth at the call of the generator of frame i.
ScopeDepthBefore(i) ==
    1 + Cardinality({j \in 1..(i - 1) : stack[j].fn \in {"block", "lambda"}})

\* The buffer c is the saved buffer of frame f, followed by nothing but the
\* instruction of the function pointer.
OnlyFunctionPointerAdded(c, f) ==
    \/ c = f.saved_code
    \/ /\ Len(c) = Len(f.saved_code) + 1
       /\ SubSeq(c, 1, Len(f.saved_code)) = f.saved_code
       /\ c[Len(c)].op = "bitcast"

LambdaReturnsOk == LambdaFrames # {} /\ Len(stack') = InnermostLambda - 1
LambdaReturnsErr == LambdaFrames # {} /\ status = "running" /\ status' = "error"

\* C23: generate_lambda returns, with Ok or with Err, with the buffer of
\* the enclosing function followed only by the function pointer, the scope
\* depth of before the call and the temp counter continuing from its saved
\* value; with Ok, one function has been appended to lambda_functions.
C23_LambdaLeavesEnclosingStateIntact ==
    [][(LambdaReturnsOk \/ LambdaReturnsErr) =>
          LET f == stack[InnermostLambda]
          IN /\ OnlyFunctionPointerAdded(code', f)
             /\ scope_depth' = ScopeDepthBefore(InnermostLambda)
             /\ temp_counter' \in {f.saved_temp_counter, f.saved_temp_counter + 1}
             /\ (LambdaReturnsOk =>
                    Len(stack'[1].lambda_functions) = Len(stack[1].lambda_functions) + 1)]_vars

\* The generators of the statements with a scope of their own that are in
\* progress.
ScopeFrames == {i \in 1..Len(stack) : stack[i].fn \in {"block", "lambda"}}

\* C29: while generation has not failed, the scope depth and the loop stack
\* hold exactly the scopes and loops of the statements in progress, so every
\* statement returns with the depths of its call, and a completed function
\* body leaves the loop stack empty.
C29_BookkeepingBalanced ==
    status # "error" =>
       /\ scope_depth = 1 + Cardinality(ScopeFrames)
       /\ Len(loop_stack) = Cardinality(LoopFrames)
       /\ (status = "done" => loop_stack = <<>> /\ scope_depth = 1)

\* A function body with a loop, a block and a lambda was generated.
C29_Witness ==
    /\ status = "done"
    /\ \E i \in 1..Len(code) : code[i].op = "bitcast"
    /\ \E i \in 1..Len(code) : code[i].op = "label" /\ code[i].l1[1] = "while.end"
    /\ \E i \in 1..Len(code) : code[i].op = "store"

\* The labels of the loops of the enclosing function, seen from the
\* innermost lambda in progress.
EnclosingLoopLabels ==
    UNION {{stack[i].cond_label, stack[i].end_label} :
              i \in {j \in LoopFrames : j < InnermostLambda}}

\* C30: the function of a lambda with a block body has no branch to a
\* label of a loop of the enclosing function, and every ret in it is a
\* ret i64.
C30_LambdaBodyIsSelfContained ==
    (status = "running" /\ LambdaFrames # {}) =>
       \A i \in 1..Len(code) :
          /\ code[i].op = "br" => code[i].l1 \notin EnclosingLoopLabels
          /\ code[i].op = "ret" => code[i].ty = "i64"

====
